---- MODULE Spec2Model ----
(***************************************************************************)
(* State-machine model of the CoralSwap pair contract                      *)
(* (contracts/pair): swap, flash loan, mint, burn, sync, the reentrancy    *)
(* guard and the dynamic fee engine, together with the token balances it   *)
(* reads and moves and the ledger clocks it samples.                       *)
(***************************************************************************)
EXTENDS Integers, Sequences, FiniteSets, TLC

(***************************************************************************)
(* Exact wide arithmetic.  The contract computes in i128; the products it  *)
(* forms (balance * 10_000 squared, anything times SCALE = 1e14) do not    *)
(* fit the model checker's machine integers, so non-negative wide values   *)
(* are kept as little-endian sequences of base-10^4 limbs without leading  *)
(* zero limbs (zero is the empty sequence).  Every operator below is exact.*)
(***************************************************************************)
Base == 100 * 100

Max(a, b) == IF a >= b THEN a ELSE b
Min(a, b) == IF a <= b THEN a ELSE b

\* Rust integer division truncates toward zero.
TruncDiv(a, b) ==
    IF a >= 0 /\ b > 0 THEN a \div b
    ELSE IF a < 0 /\ b > 0 THEN -((-a) \div b)
    ELSE IF a >= 0 /\ b < 0 THEN -(a \div (-b))
    ELSE (-a) \div (-b)

RECURSIVE Normalize(_)
Normalize(x) ==
    IF x = <<>> THEN <<>>
    ELSE IF x[Len(x)] = 0 THEN Normalize(SubSeq(x, 1, Len(x) - 1))
    ELSE x

RECURSIVE Carry(_, _)
Carry(raw, c) ==
    IF raw = <<>>
    THEN IF c = 0 THEN <<>> ELSE <<c % Base>> \o Carry(<<>>, c \div Base)
    ELSE LET v == Head(raw) + c
         IN  <<v % Base>> \o Carry(Tail(raw), v \div Base)

Big(n) == Normalize(Carry(<<n>>, 0))

Limb(x, i) == IF i <= Len(x) THEN x[i] ELSE 0

BigAdd(x, y) ==
    Normalize(Carry([i \in 1..Max(Len(x), Len(y)) |-> Limb(x, i) + Limb(y, i)], 0))

RECURSIVE ConvSum(_, _, _, _)
ConvSum(x, y, k, i) ==
    IF i > k \/ i > Len(x) THEN 0
    ELSE Limb(x, i) * Limb(y, k + 1 - i) + ConvSum(x, y, k, i + 1)

BigMul(x, y) ==
    IF x = <<>> \/ y = <<>> THEN <<>>
    ELSE Normalize(Carry([k \in 1..(Len(x) + Len(y) - 1) |-> ConvSum(x, y, k, 1)], 0))

RECURSIVE BigLessFrom(_, _, _)
BigLessFrom(x, y, i) ==
    IF i = 0 THEN FALSE
    ELSE IF x[i] # y[i] THEN x[i] < y[i]
    ELSE BigLessFrom(x, y, i - 1)

BigLess(x, y) ==
    IF Len(x) # Len(y) THEN Len(x) < Len(y) ELSE BigLessFrom(x, y, Len(x))

BigLeq(x, y) == ~BigLess(y, x)

\* x - y for x >= y.
RECURSIVE Borrow(_, _, _, _)
Borrow(x, y, i, b) ==
    IF i > Len(x) THEN <<>>
    ELSE LET v == Limb(x, i) - Limb(y, i) - b
         IN  IF v < 0 THEN <<v + Base>> \o Borrow(x, y, i + 1, 1)
             ELSE <<v>> \o Borrow(x, y, i + 1, 0)

BigSub(x, y) == Normalize(Borrow(x, y, 1, 0))

\* One step of long division by a machine integer d: two decimal digits h
\* are brought down into the quotient q and remainder r so far.
HalfLimbStep(s, h, d) ==
    [q |-> s.q * 100 + (s.r * 100 + h) \div d, r |-> (s.r * 100 + h) % d]

\* Quotient and remainder of a wide value by a machine integer d > 0
\* (d below 2^31 / 100, so that r * 100 + h stays a machine integer).
RECURSIVE BigDivRem(_, _)
BigDivRem(x, d) ==
    IF x = <<>> THEN [q |-> <<>>, r |-> 0]
    ELSE LET hi == BigDivRem(Tail(x), d)
             st == HalfLimbStep(HalfLimbStep([q |-> 0, r |-> hi.r],
                                             Head(x) \div 100, d),
                                Head(x) % 100, d)
         IN  [q |-> <<st.q>> \o hi.q, r |-> st.r]

BigDivSmall(x, d) == Normalize(BigDivRem(x, d).q)

\* The machine integer a wide value stands for (values below 2^31 only).
BigToInt(x) == Limb(x, 1) + Base * Limb(x, 2) + Base * Base * Limb(x, 3)

(***************************************************************************)
(* The signed 128-bit integers of the program (i128).  A signed wide value *)
(* is a record [neg, mag] of a sign and a magnitude; zero has neg = FALSE. *)
(***************************************************************************)
TwoTo32 == BigMul(Big(65536), Big(65536))
TwoTo64 == BigMul(TwoTo32, TwoTo32)
TwoTo128 == BigMul(TwoTo64, TwoTo64)
TwoTo127 == BigDivSmall(TwoTo128, 2)
I128_MAX == BigSub(TwoTo127, <<1>>)

\* x is a value of i128: 0 <= x <= i128::MAX.
FitsI128(x) == BigLess(x, TwoTo127)

Signed(neg, mag) == [neg |-> neg /\ mag # <<>>, mag |-> mag]

\* The i128 a signed value of magnitude below (m + 1) * 2^128 wraps to in
\* two's complement.
WrapI128(s, m) ==
    LET k == CHOOSE k \in 0..m :
                 /\ BigLeq(BigMul(Big(k), TwoTo128), s.mag)
                 /\ BigLess(s.mag, BigMul(Big(k + 1), TwoTo128))
        r == BigSub(s.mag, BigMul(Big(k), TwoTo128))
        u == IF s.neg /\ r # <<>> THEN BigSub(TwoTo128, r) ELSE r
    IN  IF BigLess(u, TwoTo127)
        THEN Signed(FALSE, u)
        ELSE Signed(TRUE, BigSub(TwoTo128, u))

(***************************************************************************)
(* Program constants.                                                      *)
(***************************************************************************)
SCALE == <<0, 0, 0, 100>>          \* 100_000_000_000_000 = 100 * Base^3
BPS_DENOMINATOR == 10000
MINIMUM_LIQUIDITY == 1000
FLASH_FEE_FLOOR_BPS == 5
MAX_PAYLOAD_SIZE == 256
MAX_DECAY_PERIODS == 64
DEFAULT_FEE_BPS == 30

\* x * SCALE and floor(x / SCALE).
MulScale(x) == BigMul(x, SCALE)
DivScale(x) ==
    LET y == BigDivSmall(x, 100)
    IN  IF Len(y) <= 3 THEN <<>> ELSE SubSeq(y, 4, Len(y))

(***************************************************************************)
(* Option values as stored under a DataKey: None, or Some(v).              *)
(***************************************************************************)
None == <<>>
Some(v) == <<v>>
IsSome(o) == o # <<>>
Unwrap(o) == o[1]

(***************************************************************************)
(* Dynamic fee engine (dynamic_fee.rs, fee_decay.rs).                      *)
(***************************************************************************)

\* An update whose observation ignores the size of the trade.
update_volatility_unweighted(fs, price_delta_abs, trade_size, total_reserve, timestamp) ==
    IF price_delta_abs < 0 \/ trade_size <= 0 \/ total_reserve <= 0
    THEN [res |-> "InvalidInput", fs |-> fs]
    ELSE [res |-> "Ok",
          fs  |-> [fs EXCEPT
                     !.vol_accumulator =
                         DivScale(BigAdd(BigMul(fs.ema_alpha, Big(price_delta_abs)),
                                         BigMul(BigSub(SCALE, fs.ema_alpha),
                                                fs.vol_accumulator))),
                     !.last_fee_update = timestamp]]

\* A blend that rounds the new accumulator up.
BlendUpdate_rounding_up(fs, alpha_term, prev_term, timestamp) ==
    [res |-> "Ok",
     fs  |-> [fs EXCEPT
                !.vol_accumulator =
                    DivScale(BigAdd(BigAdd(alpha_term, prev_term),
                                    BigSub(SCALE, <<1>>))),
                !.last_fee_update = timestamp]]

\* The EMA update of update_volatility from its two terms
\* alpha_term = ema_alpha * observation and
\* prev_term = (SCALE - ema_alpha) * vol_accumulator.
BlendUpdate(fs, alpha_term, prev_term, timestamp) ==
    IF \/ ~FitsI128(alpha_term)
       \/ ~FitsI128(prev_term)
       \/ ~FitsI128(BigAdd(alpha_term, prev_term))
    THEN [res |-> "Overflow", fs |-> fs]
    ELSE [res |-> "Ok",
          fs  |-> [fs EXCEPT
                     !.vol_accumulator = DivScale(BigAdd(alpha_term, prev_term)),
                     !.last_fee_update = timestamp]]

\* An update that clamps an overflowing product instead of reporting it.
WeightedUpdate_saturating(fs, product, timestamp) ==
    BlendUpdate(fs,
                BigMul(fs.ema_alpha,
                       DivScale(IF FitsI128(product) THEN product ELSE I128_MAX)),
                BigMul(BigSub(SCALE, fs.ema_alpha), fs.vol_accumulator),
                timestamp)

\* update_volatility from weight = trade_size * SCALE / total_reserve on:
\* product == price_delta_abs * weight, observation = product / SCALE.
WeightedUpdate_unscaled(fs, product, timestamp) ==
    IF ~FitsI128(product)
    THEN [res |-> "Overflow", fs |-> fs]
    ELSE BlendUpdate(fs,
                     BigMul(fs.ema_alpha, product),
                     BigMul(BigSub(SCALE, fs.ema_alpha), fs.vol_accumulator),
                     timestamp)

WeightedUpdate(fs, product, timestamp) ==
    IF ~FitsI128(product)
    THEN [res |-> "Overflow", fs |-> fs]
    ELSE BlendUpdate(fs,
                     BigMul(fs.ema_alpha, DivScale(product)),
                     BigMul(BigSub(SCALE, fs.ema_alpha), fs.vol_accumulator),
                     timestamp)

\* update_volatility past its input validation, on a price_delta_abs >= 0
\* of any width.
ValidatedUpdate(fs, price_delta_abs, trade_size, total_reserve, timestamp) ==
    IF ~FitsI128(MulScale(Big(trade_size)))
    THEN [res |-> "Overflow", fs |-> fs]
    ELSE WeightedUpdate(fs,
                        BigMul(price_delta_abs,
                               BigDivSmall(MulScale(Big(trade_size)),
                                           total_reserve)),
                        timestamp)

\* update_volatility: [res, fs].  `timestamp` is env.ledger().timestamp().
\* Every checked_mul / checked_add that leaves i128 gives Overflow.
update_volatility(fs, price_delta_abs, trade_size, total_reserve, timestamp) ==
    IF price_delta_abs < 0 \/ trade_size <= 0 \/ total_reserve <= 0
    THEN [res |-> "InvalidInput", fs |-> fs]
    ELSE ValidatedUpdate(fs, Big(price_delta_abs), trade_size, total_reserve,
                         timestamp)

\* A fee that is not clamped into [min_fee_bps, max_fee_bps].
compute_fee_bps_unclamped(fs) ==
    fs.min_fee_bps
        + BigToInt(DivScale(BigMul(BigMul(fs.vol_accumulator,
                                          Big(fs.ramp_up_multiplier)),
                                   Big(fs.max_fee_bps - fs.min_fee_bps))))

\* A fee that starts again from min_fee_bps once it has passed max_fee_bps.
compute_fee_bps_wrapped(fs) ==
    fs.min_fee_bps
        + (BigToInt(DivScale(BigMul(BigMul(fs.vol_accumulator,
                                           Big(fs.ramp_up_multiplier)),
                                    Big(fs.max_fee_bps - fs.min_fee_bps))))
           % (fs.max_fee_bps - fs.min_fee_bps + 1))

\* compute_fee_bps: min + vol * ramp_up * (max - min) / SCALE, clamped.
compute_fee_bps(fs) ==
    LET range      == fs.max_fee_bps - fs.min_fee_bps
        adjustment == DivScale(BigMul(BigMul(fs.vol_accumulator,
                                             Big(fs.ramp_up_multiplier)),
                                      Big(range)))
    IN  IF BigLess(Big(range), adjustment)
        THEN fs.max_fee_bps
        ELSE Min(Max(fs.min_fee_bps + BigToInt(adjustment), fs.min_fee_bps),
                 fs.max_fee_bps)

\* The unchecked product vol * ramp_up_multiplier * range of compute_fee_bps
\* leaves the range of i128 (vol >= 0).
FeeProductOverflows(fs) ==
    \/ ~FitsI128(BigMul(fs.vol_accumulator, Big(fs.ramp_up_multiplier)))
    \/ ~FitsI128(BigMul(BigMul(fs.vol_accumulator, Big(fs.ramp_up_multiplier)),
                        Big(fs.max_fee_bps - fs.min_fee_bps)))

\* The adjustment of compute_fee_bps when both multiplications wrap around:
\* a signed value, the division by SCALE truncating toward zero.
WrappedAdjustment(fs) ==
    LET first  == WrapI128(Signed(FALSE, BigMul(fs.vol_accumulator,
                                                 Big(fs.ramp_up_multiplier))),
                           fs.ramp_up_multiplier)
        second == WrapI128(Signed(first.neg,
                                  BigMul(first.mag,
                                         Big(fs.max_fee_bps - fs.min_fee_bps))),
                           fs.max_fee_bps - fs.min_fee_bps)
    IN  Signed(second.neg, DivScale(second.mag))

\* compute_fee_bps in a build whose arithmetic wraps around on overflow.
compute_fee_bps_wrapping(fs) ==
    IF WrappedAdjustment(fs).neg
    THEN fs.min_fee_bps
    ELSE IF BigLess(Big(fs.max_fee_bps - fs.min_fee_bps), WrappedAdjustment(fs).mag)
    THEN fs.max_fee_bps
    ELSE Min(Max(fs.min_fee_bps + BigToInt(WrappedAdjustment(fs).mag),
                 fs.min_fee_bps),
             fs.max_fee_bps)

\* What a call of compute_fee_bps can do: return a fee, or, when the
\* unchecked product overflows, trap (a build with overflow checks) or
\* return the fee computed from the wrapped product (a build without).
compute_fee_bps_outcomes(fs) ==
    IF FeeProductOverflows(fs)
    THEN {[res |-> "HostError", fee |-> 0],
          [res |-> "Ok", fee |-> compute_fee_bps_wrapping(fs)]}
    ELSE {[res |-> "Ok", fee |-> compute_fee_bps(fs)]}

\* The decay loop of apply_time_decay: vol /= divisor, `periods` times,
\* leaving early once the accumulator is zero.
RECURSIVE DecayLoop(_, _, _)
DecayLoop(vol, divisor, periods) ==
    IF periods = 0 THEN vol
    ELSE LET v == BigDivSmall(vol, divisor)
         IN  IF v = <<>> THEN <<>> ELSE DecayLoop(v, divisor, periods - 1)

\* A decay whose number of periods is not capped.
apply_time_decay_uncapped(fs, current_ledger) ==
    LET elapsed == Max(current_ledger - fs.last_fee_update, 0)
    IN  IF elapsed = 0 \/ fs.vol_accumulator = <<>>
        THEN fs
        ELSE [fs EXCEPT
                !.vol_accumulator =
                    DecayLoop(fs.vol_accumulator, Max(fs.cooldown_divisor, 2),
                              elapsed \div Max(fs.decay_threshold_blocks, 1)),
                !.last_fee_update = current_ledger]

apply_time_decay(fs, current_ledger) ==
    LET elapsed == Max(current_ledger - fs.last_fee_update, 0)
    IN  IF elapsed = 0 \/ fs.vol_accumulator = <<>>
        THEN fs
        ELSE LET divisor       == Max(fs.cooldown_divisor, 2)
                 threshold     == Max(fs.decay_threshold_blocks, 1)
                 decay_periods == Min(elapsed \div threshold, MAX_DECAY_PERIODS)
             IN  [fs EXCEPT
                    !.vol_accumulator = DecayLoop(fs.vol_accumulator, divisor,
                                                  decay_periods),
                    !.last_fee_update = current_ledger]

\* A decay that applies at every call, however recent the last update.
decay_stale_ema_unconditional(fs, sequence) ==
    [fs EXCEPT !.vol_accumulator = BigDivSmall(fs.vol_accumulator,
                                               Max(fs.cooldown_divisor, 2)),
               !.last_fee_update = sequence]

\* decay_stale_ema: `sequence` is env.ledger().sequence().
decay_stale_ema(fs, sequence) ==
    IF sequence > fs.last_fee_update + fs.decay_threshold_blocks
    THEN apply_time_decay(fs, sequence)
    ELSE fs

(***************************************************************************)
(* The world an invocation reads and writes: the pair's instance storage   *)
(* (one Option slot per DataKey) and the token-contract state it touches   *)
(* (the pair's own balances of token_a, token_b and the LP token, and the  *)
(* LP total supply).  Operations are functions from a world to a result    *)
(* and a world; Invoke applies the host's invocation-frame semantics.      *)
(***************************************************************************)

\* PairStorage as written by initialize (addresses are fixed identities).
NewPairStorage(timestamp) ==
    [reserve_a |-> 0, reserve_b |-> 0, block_timestamp_last |-> timestamp,
     price_a_cumulative |-> 0, price_b_cumulative |-> 0, k_last |-> <<>>]

get_pair_state(w) == w.storage.PairState
get_fee_state(w) == w.storage.FeeState
set_pair_state(w, state) == [w EXCEPT !.storage.PairState = Some(state)]
set_fee_state(w, fs) == [w EXCEPT !.storage.FeeState = Some(fs)]

\* The read-only view of the current swap fee, with its default.
get_current_fee_bps(w) ==
    IF IsSome(get_fee_state(w))
    THEN compute_fee_bps(Unwrap(get_fee_state(w)))
    ELSE DEFAULT_FEE_BPS

\* get_reentrancy_guard(..).locked, with the unwrap_or default.
GuardLocked(w) ==
    IF IsSome(w.storage.Guard) THEN Unwrap(w.storage.Guard).locked ELSE FALSE

\* A guard write that never stores the lock.
set_reentrancy_guard_never_locks(w, locked) ==
    [w EXCEPT !.storage.Guard = Some([locked |-> FALSE])]

set_reentrancy_guard(w, locked) ==
    [w EXCEPT !.storage.Guard = Some([locked |-> locked])]

\* An acquire that does not look at the lock.
acquire_unchecked(w) == [res |-> "Ok", w |-> set_reentrancy_guard(w, TRUE)]

acquire_clearing(w) ==
    IF GuardLocked(w)
    THEN [res |-> "Locked", w |-> set_reentrancy_guard(w, FALSE)]
    ELSE [res |-> "Ok", w |-> set_reentrancy_guard(w, TRUE)]

acquire(w) ==
    IF GuardLocked(w)
    THEN [res |-> "Locked", w |-> w]
    ELSE [res |-> "Ok", w |-> set_reentrancy_guard(w, TRUE)]

\* A release that flips the lock.
release_toggling(w) == set_reentrancy_guard(w, ~GuardLocked(w))

\* A release that leaves the lock in place.
release_skipped(w) == w

release(w) == set_reentrancy_guard(w, FALSE)

\* A host that keeps the writes of a failed invocation.
Invoke_without_rollback(w, r) == r.w

\* A contract invocation frame of the host, entered in world w and ending
\* with r: a call that returns Err (or traps) has every write made inside
\* it discarded; Ok keeps them.
Invoke(w, r) == IF r.res = "Ok" THEN r.w ELSE w

\* TokenClient::transfer from the pair to someone else; FALSE = it traps.
CanTransferOut(w, tok, amount) ==
    amount >= 0 /\ (IF tok = "a" THEN w.token.balance_a ELSE w.token.balance_b) >= amount

TransferOut(w, tok, amount) ==
    IF tok = "a" THEN [w EXCEPT !.token.balance_a = @ - amount]
    ELSE [w EXCEPT !.token.balance_b = @ - amount]

\* TokenClient::transfer from someone else to the pair.
TransferIn(w, tok, amount) ==
    IF tok = "a" THEN [w EXCEPT !.token.balance_a = @ + amount]
    ELSE [w EXCEPT !.token.balance_b = @ + amount]

\* LpToken::mint(to, amount); to_pair says whether `to` is the pair itself.
LpMint(w, to_pair, amount) ==
    [w EXCEPT !.token.lp_total_supply = @ + amount,
              !.token.lp_balance = IF to_pair THEN @ + amount ELSE @]

\* LpToken::burn(pair, amount).
LpBurn(w, amount) ==
    [w EXCEPT !.token.lp_total_supply = @ - amount,
              !.token.lp_balance = @ - amount]

(***************************************************************************)
(* initialize                                                              *)
(***************************************************************************)
\* An initialize that does not look for an existing PairState.
initialize_unguarded(w, env) ==
    [res |-> "Ok", w |-> set_pair_state(w, NewPairStorage(env.timestamp))]

initialize(w, env) ==
    IF IsSome(get_pair_state(w))
    THEN [res |-> "AlreadyInitialized", w |-> w]
    ELSE [res |-> "Ok", w |-> set_pair_state(w, NewPairStorage(env.timestamp))]

(***************************************************************************)
(* math::sqrt (Newton iteration)                                           *)
(***************************************************************************)
RECURSIVE SqrtLoop(_, _, _)
SqrtLoop(value, x, y) ==
    IF y < x THEN SqrtLoop(value, y, (y + value \div y) \div 2) ELSE x

\* A square root that stops after the first Newton estimate.
sqrt_first_estimate(value) ==
    IF value <= 0 THEN 0 ELSE (value + 1) \div 2

sqrt(value) ==
    IF value <= 0 THEN 0 ELSE SqrtLoop(value, value, (value + 1) \div 2)

(***************************************************************************)
(* mint                                                                    *)
(***************************************************************************)
\* The tail of mint once `liquidity` is known (lib.rs 155-168).
MintFinish(w, state, balance_a, balance_b, liquidity) ==
    IF liquidity <= 0
    THEN [res |-> "InsufficientLiquidityMinted", w |-> w]
    ELSE LET w1 == LpMint(w, FALSE, liquidity)
             s1 == [state EXCEPT !.reserve_a = balance_a,
                                 !.reserve_b = balance_b,
                                 !.k_last = BigMul(Big(balance_a), Big(balance_b))]
         IN  [res |-> "Ok", w |-> set_pair_state(w1, s1)]

mint(w) ==
    IF ~IsSome(get_pair_state(w))
    THEN [res |-> "NotInitialized", w |-> w]
    ELSE LET state        == Unwrap(get_pair_state(w))
             balance_a    == w.token.balance_a
             balance_b    == w.token.balance_b
             amount_a     == balance_a - state.reserve_a
             amount_b     == balance_b - state.reserve_b
             total_supply == w.token.lp_total_supply
         IN  IF total_supply = 0
             THEN LET liquidity == sqrt(amount_a * amount_b) - MINIMUM_LIQUIDITY
                  IN  IF liquidity <= 0
                      THEN [res |-> "InsufficientLiquidityMinted", w |-> w]
                      ELSE MintFinish(LpMint(w, TRUE, MINIMUM_LIQUIDITY), state,
                                      balance_a, balance_b, liquidity)
             ELSE IF state.reserve_a = 0 \/ state.reserve_b = 0
             THEN [res |-> "HostError", w |-> w]      \* division by zero traps
             ELSE LET liquidity_a == TruncDiv(amount_a * total_supply, state.reserve_a)
                      liquidity_b == TruncDiv(amount_b * total_supply, state.reserve_b)
                  IN  MintFinish(w, state, balance_a, balance_b,
                                 Min(liquidity_a, liquidity_b))

(***************************************************************************)
(* burn                                                                    *)
(***************************************************************************)
burn_keeping_reserves(w) ==
    IF ~IsSome(get_pair_state(w))
    THEN [res |-> "NotInitialized", w |-> w]
    ELSE LET state        == Unwrap(get_pair_state(w))
             lp_balance   == w.token.lp_balance
             total_supply == w.token.lp_total_supply
         IN  IF total_supply = 0
             THEN [res |-> "HostError", w |-> w]      \* division by zero traps
             ELSE LET amount_a == TruncDiv(lp_balance * state.reserve_a, total_supply)
                      amount_b == TruncDiv(lp_balance * state.reserve_b, total_supply)
                  IN  IF amount_a <= 0 \/ amount_b <= 0
                      THEN [res |-> "InsufficientLiquidityBurned", w |-> w]
                      ELSE IF ~CanTransferOut(w, "a", amount_a)
                              \/ ~CanTransferOut(w, "b", amount_b)
                      THEN [res |-> "HostError", w |-> w]  \* token transfer traps
                      ELSE LET w1 == LpBurn(w, lp_balance)
                               w2 == TransferOut(TransferOut(w1, "a", amount_a),
                                                 "b", amount_b)
                               ra == state.reserve_a
                               rb == state.reserve_b
                               s1 == [state EXCEPT !.reserve_a = ra,
                                                   !.reserve_b = rb,
                                                   !.k_last = BigMul(Big(ra), Big(rb))]
                           IN  [res |-> "Ok", w |-> set_pair_state(w2, s1)]

burn(w) ==
    IF ~IsSome(get_pair_state(w))
    THEN [res |-> "NotInitialized", w |-> w]
    ELSE LET state        == Unwrap(get_pair_state(w))
             lp_balance   == w.token.lp_balance
             total_supply == w.token.lp_total_supply
         IN  IF total_supply = 0
             THEN [res |-> "HostError", w |-> w]      \* division by zero traps
             ELSE LET amount_a == TruncDiv(lp_balance * state.reserve_a, total_supply)
                      amount_b == TruncDiv(lp_balance * state.reserve_b, total_supply)
                  IN  IF amount_a <= 0 \/ amount_b <= 0
                      THEN [res |-> "InsufficientLiquidityBurned", w |-> w]
                      ELSE IF ~CanTransferOut(w, "a", amount_a)
                              \/ ~CanTransferOut(w, "b", amount_b)
                      THEN [res |-> "HostError", w |-> w]  \* token transfer traps
                      ELSE LET w1 == LpBurn(w, lp_balance)
                               w2 == TransferOut(TransferOut(w1, "a", amount_a),
                                                 "b", amount_b)
                               ra == state.reserve_a - amount_a
                               rb == state.reserve_b - amount_b
                               s1 == [state EXCEPT !.reserve_a = ra,
                                                   !.reserve_b = rb,
                                                   !.k_last = BigMul(Big(ra), Big(rb))]
                           IN  [res |-> "Ok", w |-> set_pair_state(w2, s1)]

(***************************************************************************)
(* sync                                                                    *)
(***************************************************************************)
sync(w, env) ==
    IF ~IsSome(get_pair_state(w))
    THEN [res |-> "NotInitialized", w |-> w]
    ELSE LET state        == Unwrap(get_pair_state(w))
             balance_a    == w.token.balance_a
             balance_b    == w.token.balance_b
             time_elapsed == Max(env.timestamp - state.block_timestamp_last, 0)
             accumulate   == time_elapsed > 0 /\ state.reserve_a > 0
                             /\ state.reserve_b > 0
             price_a_delta == (state.reserve_b * time_elapsed) \div state.reserve_a
             price_b_delta == (state.reserve_a * time_elapsed) \div state.reserve_b
             s1 == [state EXCEPT
                      !.price_a_cumulative = IF accumulate THEN @ + price_a_delta ELSE @,
                      !.price_b_cumulative = IF accumulate THEN @ + price_b_delta ELSE @,
                      !.reserve_a = balance_a,
                      !.reserve_b = balance_b,
                      !.block_timestamp_last = env.timestamp]
         IN  [res |-> "Ok", w |-> set_pair_state(w, s1)]

(***************************************************************************)
(* swap                                                                    *)
(***************************************************************************)
\* floor(numerator * 10_000 / denominator), or 0 for a zero denominator:
\* the price proxy of swap_inner step 12.
PriceOf(numerator, denominator) ==
    IF denominator > 0
    THEN BigToInt(BigDivSmall(BigMul(Big(numerator), Big(BPS_DENOMINATOR)), denominator))
    ELSE 0

\* amount_in = new_balance - (old_reserve - amount_out), floored at 0.
AmountIn(balance, reserve, amount_out) == Max(balance - (reserve - amount_out), 0)

\* A swap that skips the k-invariant test.
KInvariantHolds_unchecked(k_after, k_before) == TRUE

\* The k-invariant test of swap_inner step 11 (FALSE = InvalidK).
KInvariantHolds(k_after, k_before) == ~BigLess(k_after, k_before)

\* Steps 8-14 of swap_inner, on the world after the optimistic transfer.
SwapSettle(w, pair, fee_state, fee_bps, amount_a_out, amount_b_out, env) ==
    LET balance_a   == w.token.balance_a
        balance_b   == w.token.balance_b
        amount_a_in == AmountIn(balance_a, pair.reserve_a, amount_a_out)
        amount_b_in == AmountIn(balance_b, pair.reserve_b, amount_b_out)
        scaled_a    == BigMul(Big(balance_a), Big(BPS_DENOMINATOR))
        scaled_b    == BigMul(Big(balance_b), Big(BPS_DENOMINATOR))
        fee_on_a    == BigMul(Big(amount_a_in), Big(fee_bps))
        fee_on_b    == BigMul(Big(amount_b_in), Big(fee_bps))
    IN  IF amount_a_in <= 0 /\ amount_b_in <= 0
        THEN [res |-> "InsufficientInputAmount", w |-> w]
        ELSE IF BigLeq(scaled_a, fee_on_a) \/ BigLeq(scaled_b, fee_on_b)
        THEN [res |-> "InsufficientOutputAmount", w |-> w]
        ELSE LET balance_a_adj == BigSub(scaled_a, fee_on_a)
                 balance_b_adj == BigSub(scaled_b, fee_on_b)
                 k_before == BigMul(BigMul(Big(pair.reserve_a), Big(pair.reserve_b)),
                                    BigMul(Big(BPS_DENOMINATOR), Big(BPS_DENOMINATOR)))
                 k_after  == BigMul(balance_a_adj, balance_b_adj)
             IN  IF ~KInvariantHolds(k_after, k_before)
                 THEN [res |-> "InvalidK", w |-> w]
                 ELSE LET total_reserve == pair.reserve_a + pair.reserve_b
                          trade_size    == Max(amount_a_in, amount_b_in)
                          old_price     == PriceOf(pair.reserve_b, pair.reserve_a)
                          new_price     == PriceOf(balance_b, balance_a)
                          price_delta   == IF new_price >= old_price
                                           THEN new_price - old_price
                                           ELSE old_price - new_price
                          vol == update_volatility(fee_state, price_delta, trade_size,
                                                   total_reserve, env.timestamp)
                      IN  IF vol.res # "Ok"
                          THEN [res |-> vol.res, w |-> w]
                          ELSE LET p1 == [pair EXCEPT
                                            !.k_last = BigMul(Big(balance_a), Big(balance_b)),
                                            !.reserve_a = balance_a,
                                            !.reserve_b = balance_b,
                                            !.block_timestamp_last = env.timestamp]
                               IN  [res |-> "Ok",
                                    w |-> set_fee_state(set_pair_state(w, p1), vol.fs)]

\* swap_inner: [res, w, ext]; ext collects, for every call this invocation
\* makes into another contract, whether the guard was locked at that time.
swap_inner(w, amount_a_out, amount_b_out, env) ==
    IF amount_a_out <= 0 /\ amount_b_out <= 0
    THEN [res |-> "InsufficientOutputAmount", w |-> w, ext |-> {}]
    ELSE IF ~IsSome(get_pair_state(w)) \/ ~IsSome(get_fee_state(w))
    THEN [res |-> "NotInitialized", w |-> w, ext |-> {}]
    ELSE LET pair       == Unwrap(get_pair_state(w))
             fee_state0 == Unwrap(get_fee_state(w))
         IN  IF amount_a_out >= pair.reserve_a \/ amount_b_out >= pair.reserve_b
             THEN [res |-> "InsufficientLiquidity", w |-> w, ext |-> {}]
             ELSE LET fee_state == decay_stale_ema(fee_state0, env.sequence)
                      fee_bps   == compute_fee_bps(fee_state)
                      send_a    == Max(amount_a_out, 0)
                      send_b    == Max(amount_b_out, 0)
                      ext       == {GuardLocked(w)}
                  IN  IF ~CanTransferOut(w, "a", send_a) \/ ~CanTransferOut(w, "b", send_b)
                      THEN [res |-> "HostError", w |-> w, ext |-> ext]
                      ELSE LET w1 == TransferOut(TransferOut(w, "a", send_a), "b", send_b)
                               r  == SwapSettle(w1, pair, fee_state, fee_bps,
                                                amount_a_out, amount_b_out, env)
                           IN  [res |-> r.res, w |-> r.w, ext |-> ext]

\* Pair::swap: guard, swap_inner, release on every return.
swap(w, amount_a_out, amount_b_out, env) ==
    LET acq == acquire(w)
    IN  IF acq.res # "Ok"
        THEN [res |-> acq.res, w |-> w, ext |-> {}]
        ELSE LET inner == swap_inner(acq.w, amount_a_out, amount_b_out, env)
             IN  [res |-> inner.res, w |-> release(inner.w), ext |-> inner.ext]

(***************************************************************************)
(* flash loan                                                              *)
(***************************************************************************)
\* fee.max(1) on a wide value.
AtLeastOne(fee) == IF fee = <<>> THEN <<1>> ELSE fee

\* A flash fee that may round down to zero.
FlashFeeOfProduct_without_minimum(product) ==
    IF FitsI128(product) THEN BigDivSmall(product, BPS_DENOMINATOR) ELSE I128_MAX

\* The flash fee from the product amount * effective_bps: checked_mul,
\* then / 10_000, or i128::MAX when the product left i128.
FlashFeeOfProduct(product) ==
    IF FitsI128(product)
    THEN AtLeastOne(BigDivSmall(product, BPS_DENOMINATOR))
    ELSE I128_MAX

\* compute_flash_fee on a wide amount.
compute_flash_fee_wide(amount, current_fee_bps) ==
    FlashFeeOfProduct(BigMul(amount,
                             Big(Max(current_fee_bps, FLASH_FEE_FLOOR_BPS))))

\* compute_flash_fee on amounts and fees that are machine integers.
compute_flash_fee(amount, current_fee_bps) ==
    BigToInt(compute_flash_fee_wide(Big(amount), current_fee_bps))

\* A flash loan that loads the pair state before it validates the amounts.
FlashLoanStart_state_first(w, amount_a, amount_b, data_len) ==
    IF data_len > MAX_PAYLOAD_SIZE
    THEN [res |-> "FlashPayloadTooLarge", w |-> w, locals |-> None]
    ELSE IF ~IsSome(get_pair_state(w))
    THEN [res |-> "NotInitialized", w |-> w, locals |-> None]
    ELSE IF amount_a < 0 \/ amount_b < 0
    THEN [res |-> "InsufficientInputAmount", w |-> w, locals |-> None]
    ELSE IF amount_a = 0 /\ amount_b = 0
    THEN [res |-> "InsufficientInputAmount", w |-> w, locals |-> None]
    ELSE LET state == Unwrap(get_pair_state(w))
         IN  IF amount_a > state.reserve_a \/ amount_b > state.reserve_b
             THEN [res |-> "InsufficientLiquidity", w |-> w, locals |-> None]
             ELSE LET pre_k == BigMul(Big(state.reserve_a), Big(state.reserve_b))
                      acq   == acquire(w)
                  IN  IF acq.res # "Ok"
                      THEN [res |-> acq.res, w |-> w, locals |-> None]
                      ELSE LET w1 == acq.w
                               pool_fee_bps ==
                                   IF IsSome(get_fee_state(w1))
                                   THEN Unwrap(get_fee_state(w1)).baseline_fee_bps
                                   ELSE FLASH_FEE_FLOOR_BPS
                               fee_a == IF amount_a > 0
                                        THEN compute_flash_fee(amount_a, pool_fee_bps)
                                        ELSE 0
                               fee_b == IF amount_b > 0
                                        THEN compute_flash_fee(amount_b, pool_fee_bps)
                                        ELSE 0
                               locals == [state |-> state, pre_k |-> pre_k,
                                          amount_a |-> amount_a, amount_b |-> amount_b,
                                          fee_a |-> fee_a, fee_b |-> fee_b,
                                          ext |-> {GuardLocked(w1)}]
                           IN  IF ~CanTransferOut(w1, "a", amount_a)
                                  \/ ~CanTransferOut(w1, "b", amount_b)
                               THEN [res |-> "HostError", w |-> w1, locals |-> None]
                               ELSE [res |-> "Ok",
                                     w |-> TransferOut(TransferOut(w1, "a", amount_a),
                                                       "b", amount_b),
                                     locals |-> Some(locals)]

\* Steps 1-5 of execute_flash_loan, up to the point where control passes to
\* the receiver: [res, w, locals].  res = "Ok" means the callback starts.
FlashLoanStart(w, amount_a, amount_b, data_len) ==
    IF data_len > MAX_PAYLOAD_SIZE
    THEN [res |-> "FlashPayloadTooLarge", w |-> w, locals |-> None]
    ELSE IF amount_a < 0 \/ amount_b < 0
    THEN [res |-> "InsufficientInputAmount", w |-> w, locals |-> None]
    ELSE IF amount_a = 0 /\ amount_b = 0
    THEN [res |-> "InsufficientInputAmount", w |-> w, locals |-> None]
    ELSE IF ~IsSome(get_pair_state(w))
    THEN [res |-> "NotInitialized", w |-> w, locals |-> None]
    ELSE LET state == Unwrap(get_pair_state(w))
         IN  IF amount_a > state.reserve_a \/ amount_b > state.reserve_b
             THEN [res |-> "InsufficientLiquidity", w |-> w, locals |-> None]
             ELSE LET pre_k == BigMul(Big(state.reserve_a), Big(state.reserve_b))
                      acq   == acquire(w)
                  IN  IF acq.res # "Ok"
                      THEN [res |-> acq.res, w |-> w, locals |-> None]
                      ELSE LET w1 == acq.w
                               pool_fee_bps ==
                                   IF IsSome(get_fee_state(w1))
                                   THEN Unwrap(get_fee_state(w1)).baseline_fee_bps
                                   ELSE FLASH_FEE_FLOOR_BPS
                               fee_a == IF amount_a > 0
                                        THEN compute_flash_fee(amount_a, pool_fee_bps)
                                        ELSE 0
                               fee_b == IF amount_b > 0
                                        THEN compute_flash_fee(amount_b, pool_fee_bps)
                                        ELSE 0
                               locals == [state |-> state, pre_k |-> pre_k,
                                          amount_a |-> amount_a, amount_b |-> amount_b,
                                          fee_a |-> fee_a, fee_b |-> fee_b,
                                          ext |-> {GuardLocked(w1)}]
                           IN  IF ~CanTransferOut(w1, "a", amount_a)
                                  \/ ~CanTransferOut(w1, "b", amount_b)
                               THEN [res |-> "HostError", w |-> w1, locals |-> None]
                               ELSE [res |-> "Ok",
                                     w |-> TransferOut(TransferOut(w1, "a", amount_a),
                                                       "b", amount_b),
                                     locals |-> Some(locals)]

\* A repayment test that wants more than the fee.
Repaid_strictly_more(amount, new_balance, old_reserve, fee) ==
    amount > 0 => new_balance > old_reserve + fee

\* The repayment test of step 7 for one token (TRUE = repaid).
Repaid(amount, new_balance, old_reserve, fee) ==
    amount > 0 => new_balance >= old_reserve + fee

\* Steps 7-11 of execute_flash_loan, after the receiver returned, on the
\* locals the invocation kept across the callback.
FlashLoanFinish(w, locals) ==
    LET state         == locals.state
        new_balance_a == w.token.balance_a
        new_balance_b == w.token.balance_b
    IN  IF ~Repaid(locals.amount_a, new_balance_a, state.reserve_a, locals.fee_a)
        THEN [res |-> "FlashLoanNotRepaid", w |-> w]
        ELSE IF ~Repaid(locals.amount_b, new_balance_b, state.reserve_b, locals.fee_b)
        THEN [res |-> "FlashLoanNotRepaid", w |-> w]
        ELSE LET post_k == BigMul(Big(new_balance_a), Big(new_balance_b))
             IN  IF BigLess(post_k, locals.pre_k)
                 THEN [res |-> "InvalidK", w |-> w]
                 ELSE LET s1 == [state EXCEPT !.reserve_a = new_balance_a,
                                              !.reserve_b = new_balance_b,
                                              !.k_last = post_k]
                      IN  [res |-> "Ok", w |-> release(set_pair_state(w, s1))]

(***************************************************************************)
(* Bounds of the explored behaviours and the inputs the environment draws. *)
(***************************************************************************)
MaxDeposits == 2        \* direct token transfers into the pair per behaviour
MaxCalls == 3           \* invocations of the pair's entry points per behaviour
MaxBalance == 1006      \* cap on the pair's balance of either token
MaxSequence == 1        \* ledgers closed per behaviour
SecondsPerLedger == 5   \* timestamp advance per closed ledger

Chunk == MINIMUM_LIQUIDITY + 1
\* <<amount of token_a, amount of token_b>> of one direct transfer: a
\* provider funding both sides, or a donation of one token.
DepositAmounts == {<<Chunk, Chunk>>, <<2, 0>>, <<0, 2>>}
SwapAmounts == {0, 1}
FlashAmounts == {-1, 0, Chunk}
PayloadLens == {0, MAX_PAYLOAD_SIZE + 1}

\* FeeState as a deployment writes it: the test suite's parameters, with
\* volatility accumulated (fee 24 bps) and decay due as soon as a ledger
\* closes.
VolatileFeeState ==
    [vol_accumulator |-> BigDivSmall(SCALE, 10), ema_alpha |-> BigDivSmall(SCALE, 10),
     baseline_fee_bps |-> 30, min_fee_bps |-> 5, max_fee_bps |-> 100,
     ramp_up_multiplier |-> 2, cooldown_divisor |-> 2,
     last_fee_update |-> 0, decay_threshold_blocks |-> 0]

InitialFeeStates == {Some(VolatileFeeState)}

(***************************************************************************)
(* State.                                                                  *)
(*   storage  the pair's instance storage: PairState, FeeState, Guard      *)
(*   token    the pair's balances of token_a, token_b and of the LP token, *)
(*            and the LP total supply                                      *)
(*   ledger   env.ledger(): timestamp and sequence                         *)
(*   frame    None between invocations; during the on_flash_loan callback  *)
(*            of a flash loan, the suspended invocation: its locals, the   *)
(*            world at its entry (what a failure rolls back to) and what   *)
(*            the receiver has done so far                                 *)
(*   last     the outcome of the most recently completed invocation        *)
(*   deposits number of direct transfers into the pair so far              *)
(*   calls    number of invocations of the pair started so far             *)
(***************************************************************************)
VARIABLES storage, token, ledger, frame, last, deposits, calls

vars == <<storage, token, ledger, frame, last, deposits, calls>>

World == [storage |-> storage, token |-> token]

Idle == frame = None
InCallback == frame # None

\* The record of a completed invocation.  nested: made by the flash-loan
\* receiver from inside the callback.  ext: guard-locked flags seen at the
\* invocation's calls into other contracts.  underpaid: a flash loan whose
\* receiver returned less than amount + fee of a borrowed token.  flash:
\* for a flash loan that succeeded, the loan terms and what the receiver did.
Outcome(op, res, nested, ext, underpaid, flash) ==
    [op |-> op, res |-> res, nested |-> nested, ext |-> ext,
     underpaid |-> underpaid, flash |-> flash]

\* The value of `last` after a step that completes no invocation.
NoCall == Outcome("none", "Ok", FALSE, {}, FALSE, None)

\* The pair as deployed: before the factory's initialize call or after it.
Init ==
    /\ storage \in {[PairState |-> p, FeeState |-> f, Guard |-> None] :
                        p \in {None, Some(NewPairStorage(0))},
                        f \in InitialFeeStates}
    /\ token = [balance_a |-> 0, balance_b |-> 0, lp_balance |-> 0,
                lp_total_supply |-> 0]
    /\ ledger = [timestamp |-> 0, sequence |-> 0]
    /\ frame = None
    /\ last = NoCall
    /\ deposits = 0
    /\ calls = 0

\* A top-level invocation that runs to completion in one step.
Complete(op, r, ext) ==
    /\ Idle
    /\ calls < MaxCalls
    /\ calls' = calls + 1
    /\ LET w == Invoke(World, r)
       IN  /\ storage' = w.storage
           /\ token' = w.token
    /\ last' = Outcome(op, r.res, FALSE, ext, FALSE, None)
    /\ UNCHANGED <<ledger, frame, deposits>>

\* An invocation the receiver makes (with try_*) from inside the callback:
\* it runs in its own frame and the receiver goes on with its result.
Nested(op, r) ==
    /\ InCallback
    /\ calls < MaxCalls
    /\ calls' = calls + 1
    /\ LET w == Invoke(World, r)
       IN  /\ storage' = w.storage
           /\ token' = w.token
    /\ last' = Outcome(op, r.res, TRUE, {}, FALSE, None)
    /\ frame' = Some([Unwrap(frame) EXCEPT !.quiet = @ /\ r.res # "Ok"])
    /\ UNCHANGED <<ledger, deposits>>

Initialize == Complete("initialize", initialize(World, ledger), {})

Mint == Complete("mint", mint(World), {})

Burn == Complete("burn", burn(World), {})

Sync == Complete("sync", sync(World, ledger), {})

Swap ==
    \E amount_a_out \in SwapAmounts, amount_b_out \in SwapAmounts :
        LET r == swap(World, amount_a_out, amount_b_out, ledger)
        IN  Complete("swap", r, r.ext)

\* Someone transfers tokens straight to the pair's address.
Deposit ==
    /\ Idle
    /\ deposits < MaxDeposits
    /\ \E amounts \in DepositAmounts :
          /\ token.balance_a + amounts[1] <= MaxBalance
          /\ token.balance_b + amounts[2] <= MaxBalance
          /\ token' = TransferIn(TransferIn(World, "a", amounts[1]),
                                 "b", amounts[2]).token
    /\ deposits' = deposits + 1
    /\ last' = NoCall
    /\ UNCHANGED <<storage, ledger, frame, calls>>

\* A share holder transfers all shares held outside the pair to the pair.
TransferShares ==
    /\ Idle
    /\ token.lp_total_supply > token.lp_balance
    /\ token' = [token EXCEPT !.lp_balance = token.lp_total_supply]
    /\ last' = NoCall
    /\ UNCHANGED <<storage, ledger, frame, deposits, calls>>

\* The ledger closes: sequence and timestamp advance.
CloseLedger ==
    /\ Idle
    /\ ledger.sequence < MaxSequence
    /\ ledger' = [timestamp |-> ledger.timestamp + SecondsPerLedger,
                  sequence  |-> ledger.sequence + 1]
    /\ last' = NoCall
    /\ UNCHANGED <<storage, token, frame, deposits, calls>>

\* flash_loan up to the callback: it either fails in its first steps or
\* suspends in on_flash_loan with control at the receiver.
FlashLoanEnter(amount_a, amount_b, data_len, rejected) ==
    /\ Idle
    /\ calls < MaxCalls
    /\ calls' = calls + 1
    /\ LET r == FlashLoanStart(World, amount_a, amount_b, data_len)
       IN  IF r.res = "Ok"
           THEN /\ storage' = r.w.storage
                /\ token' = r.w.token
                /\ frame' = Some([locals |-> Unwrap(r.locals),
                                  entry |-> World,
                                  repaid_a |-> 0, repaid_b |-> 0,
                                  quiet |-> TRUE])
                /\ last' = NoCall
           ELSE /\ last' = Outcome("flash_loan", r.res, FALSE, {}, FALSE, rejected)
                /\ UNCHANGED <<storage, token, frame>>
    /\ UNCHANGED <<ledger, deposits>>

FlashLoanBegin ==
    \E amount_a \in FlashAmounts, amount_b \in FlashAmounts,
       data_len \in PayloadLens :
        FlashLoanEnter(amount_a, amount_b, data_len, None)

\* What the receiver did, as recorded when the flash loan completes.
FlashSummary(f) ==
    [amount_a |-> f.locals.amount_a, amount_b |-> f.locals.amount_b,
     fee_a |-> f.locals.fee_a, fee_b |-> f.locals.fee_b,
     repaid_a |-> f.repaid_a, repaid_b |-> f.repaid_b, quiet |-> f.quiet,
     reserve_a |-> f.locals.state.reserve_a,
     reserve_b |-> f.locals.state.reserve_b,
     balance_a |-> f.entry.token.balance_a,
     balance_b |-> f.entry.token.balance_b]

\* The receiver returned less than amount + fee of a token it borrowed.
Underpaid(f) ==
    \/ f.locals.amount_a > 0 /\ f.repaid_a < f.locals.amount_a + f.locals.fee_a
    \/ f.locals.amount_b > 0 /\ f.repaid_b < f.locals.amount_b + f.locals.fee_b

\* The receiver sends tokens back to the pair: of each borrowed token the
\* principal plus fee, less one of the given shortfalls ({0, 1}: in full or
\* one unit less than that).
RepayWithin(shortfalls) ==
    /\ InCallback
    /\ LET f == Unwrap(frame)
       IN  /\ f.repaid_a = 0 /\ f.repaid_b = 0
           /\ \E short_a \in shortfalls, short_b \in shortfalls :
                 LET pay_a == IF f.locals.amount_a > 0
                              THEN f.locals.amount_a + f.locals.fee_a - short_a ELSE 0
                     pay_b == IF f.locals.amount_b > 0
                              THEN f.locals.amount_b + f.locals.fee_b - short_b ELSE 0
                 IN  /\ f.locals.amount_a = 0 => short_a = 0
                     /\ f.locals.amount_b = 0 => short_b = 0
                     /\ token.balance_a + pay_a <= MaxBalance
                     /\ token.balance_b + pay_b <= MaxBalance
                     /\ token' = TransferIn(TransferIn(World, "a", pay_a),
                                            "b", pay_b).token
                     /\ frame' = Some([f EXCEPT !.repaid_a = pay_a,
                                                !.repaid_b = pay_b])
    /\ last' = NoCall
    /\ UNCHANGED <<storage, ledger, deposits, calls>>

Repay == RepayWithin({0, 1})

NestedSwap ==
    \E amount_a_out \in SwapAmounts, amount_b_out \in SwapAmounts :
        Nested("swap", swap(World, amount_a_out, amount_b_out, ledger))

\* A nested flash loan would suspend in its own callback only if it got
\* past acquire; the result of its first steps is the result of the call.
NestedFlashLoan ==
    \E amount_a \in FlashAmounts, amount_b \in FlashAmounts :
        LET r == FlashLoanStart(World, amount_a, amount_b, 0)
        IN  /\ r.res # "Ok"
            /\ Nested("flash_loan", [res |-> r.res, w |-> r.w])

NestedMint == Nested("mint", mint(World))

NestedBurn == Nested("burn", burn(World))

NestedSync == Nested("sync", sync(World, ledger))

\* on_flash_loan returns and flash_loan runs to its end: Ok commits, an
\* error rolls the whole invocation back to its entry.
FlashLoanEnd ==
    /\ InCallback
    /\ LET f == Unwrap(frame)
           r == FlashLoanFinish(World, f.locals)
           w == Invoke(f.entry, r)
       IN  /\ storage' = w.storage
           /\ token' = w.token
           /\ last' = Outcome("flash_loan", r.res, FALSE, f.locals.ext,
                              Underpaid(f),
                              IF r.res = "Ok" THEN Some(FlashSummary(f)) ELSE None)
    /\ frame' = None
    /\ UNCHANGED <<ledger, deposits, calls>>

\* The receiver traps inside on_flash_loan (for instance on an unchecked
\* nested call): the call into it fails and so does the flash loan.
CallbackTrap ==
    /\ InCallback
    /\ LET f == Unwrap(frame)
           w == Invoke(f.entry, [res |-> "HostError", w |-> World])
       IN  /\ storage' = w.storage
           /\ token' = w.token
           /\ last' = Outcome("flash_loan", "HostError", FALSE, f.locals.ext,
                              Underpaid(f), None)
    /\ frame' = None
    /\ UNCHANGED <<ledger, deposits, calls>>

Next ==
    \/ Initialize
    \/ Mint
    \/ Burn
    \/ Sync
    \/ Swap
    \/ Deposit
    \/ TransferShares
    \/ CloseLedger
    \/ FlashLoanBegin
    \/ Repay
    \/ NestedSwap
    \/ NestedFlashLoan
    \/ NestedMint
    \/ NestedBurn
    \/ NestedSync
    \/ FlashLoanEnd
    \/ CallbackTrap

Spec == Init /\ [][Next]_vars

(***************************************************************************)
(* Properties.  A step that completes an invocation sets last' to its      *)
(* outcome; every other step sets last' to NoCall.  So a condition on      *)
(* last' picks out the steps in which a given kind of invocation returns.  *)
(***************************************************************************)

\* reserve_a * reserve_b of a stored PairState (zero when there is none).
ReserveProduct(st) ==
    IF IsSome(st.PairState)
    THEN BigMul(Big(Unwrap(st.PairState).reserve_a), Big(Unwrap(st.PairState).reserve_b))
    ELSE <<>>

MutatingOps == {"mint", "burn", "swap", "flash_loan", "sync"}

\* C1: in every step in which a swap returns Ok, the stored product
\* reserve_a * reserve_b after the call is at least the product before it.
C1_SwapKeepsReserveProduct ==
    [][(last'.op = "swap" /\ last'.res = "Ok")
          => ~BigLess(ReserveProduct(storage'), ReserveProduct(storage))]_vars

\* A swap has succeeded on a funded pool.
C1_Witness ==
    /\ last.op = "swap" /\ last.res = "Ok"
    /\ Unwrap(storage.PairState).reserve_a > 0
    /\ Unwrap(storage.PairState).reserve_b > 0

\* C2 as stated: every swap or flash_loan the receiver makes from inside
\* the callback fails with Locked.
C2_NestedCallFailsLocked ==
    (last.nested /\ last.op \in {"swap", "flash_loan"}) => last.res = "Locked"

\* The errors flash_loan returns before it reaches the guard.
FlashPreflightErrors ==
    {"FlashPayloadTooLarge", "InsufficientInputAmount", "NotInitialized",
     "InsufficientLiquidity"}

\* C2 amended: a swap the receiver makes from inside the callback fails
\* with Locked; a flash_loan it makes fails with Locked or, when its
\* arguments do not pass the pre-flight checks, with the error of the
\* failing check; either way the attempt changes neither the pair's
\* storage, nor the token balances, nor the suspended outer invocation,
\* so the outer flash_loan goes on exactly as without the attempt.
C2_NestedCallRejected ==
    [][(last'.nested /\ last'.op \in {"swap", "flash_loan"})
          => /\ last'.op = "swap" => last'.res = "Locked"
             /\ last'.op = "flash_loan"
                   => last'.res \in {"Locked"} \cup FlashPreflightErrors
             /\ storage' = storage
             /\ token' = token
             /\ frame' = frame]_vars

\* The receiver tried a swap from inside the callback and got Locked.
C2_Witness ==
    InCallback /\ last.nested /\ last.op = "swap" /\ last.res = "Locked"

\* C3: while the receiver's callback runs the guard is locked, and it was
\* locked when flash_loan transferred the loan out; every call a swap made
\* into another contract (the optimistic transfer) was made with the guard
\* locked.
C3_ExternalCodeRunsLocked ==
    /\ InCallback => /\ GuardLocked(World)
                     /\ Unwrap(frame).locals.ext = {TRUE}
    /\ last.op \in {"swap", "flash_loan"} => last.ext \subseteq {TRUE}

\* The receiver is running inside the callback and has acted.
C3_Witness ==
    InCallback /\ GuardLocked(World) /\ Unwrap(frame).repaid_a > 0

\* C4: between invocations the guard is unlocked, whatever the last
\* invocation returned, and no top-level swap or flash_loan returns Locked.
C4_GuardFreeBetweenCalls ==
    /\ Idle => ~GuardLocked(World)
    /\ (~last.nested /\ last.op \in {"swap", "flash_loan"}) => last.res # "Locked"

\* A flash_loan has failed after its callback and the guard is unlocked.
C4_Witness ==
    /\ Idle /\ ~GuardLocked(World)
    /\ last.op = "flash_loan" /\ last.res = "FlashLoanNotRepaid"

\* The storage an invocation that returns in this step started from: for
\* the flash_loan that was suspended in its callback, the storage at its
\* entry; for any other invocation, the storage before the step.
StorageBeforeCall ==
    IF InCallback /\ frame' = None THEN Unwrap(frame).entry.storage ELSE storage

CallbackReturns == InCallback /\ frame' = None /\ last'.res # "HostError"

\* The loan of frame f borrows token a only, and the receiver sent back
\* exactly amount_a + fee_a of it.
ExactLoanOfA(f) ==
    /\ f.locals.amount_a > 0 /\ f.locals.amount_b = 0
    /\ f.repaid_a = f.locals.amount_a + f.locals.fee_a

\* The same for token b.
ExactLoanOfB(f) ==
    /\ f.locals.amount_b > 0 /\ f.locals.amount_a = 0
    /\ f.repaid_b = f.locals.amount_b + f.locals.fee_b

\* The flash_loan returns Ok and has raised the reserve of the borrowed
\* token of frame f by exactly the fee, the other reserve being unchanged.
ReserveGainsExactlyFee(f) ==
    /\ last'.res = "Ok"
    /\ Unwrap(storage'.PairState).reserve_a = f.locals.state.reserve_a + f.locals.fee_a
    /\ Unwrap(storage'.PairState).reserve_b = f.locals.state.reserve_b + f.locals.fee_b

\* The pair held exactly its stored reserves when the flash_loan of frame f
\* started.
SyncedAtEntry(f) ==
    /\ f.entry.token.balance_a = f.locals.state.reserve_a
    /\ f.entry.token.balance_b = f.locals.state.reserve_b

\* C6 as stated: a flash_loan of one token whose receiver returns exactly
\* amount + fee succeeds and raises that token's reserve by exactly the
\* fee, the other reserve staying as it was.
C6_ExactRepaymentGainsFee ==
    [][(CallbackReturns
          /\ (ExactLoanOfA(Unwrap(frame)) \/ ExactLoanOfB(Unwrap(frame))))
          => ReserveGainsExactlyFee(Unwrap(frame))]_vars

\* C6 amended: the same, for a flash_loan that starts with the pair's
\* balances equal to its stored reserves and whose receiver makes no
\* successful call on the pair from inside the callback.
C6_ExactRepaymentGainsFeeWhenSynced ==
    [][(CallbackReturns
          /\ (ExactLoanOfA(Unwrap(frame)) \/ ExactLoanOfB(Unwrap(frame)))
          /\ SyncedAtEntry(Unwrap(frame))
          /\ Unwrap(frame).quiet)
          => ReserveGainsExactlyFee(Unwrap(frame))]_vars

\* A one-token flash_loan that started on a synced pair and was repaid
\* exactly has succeeded.
C6_Witness ==
    /\ last.op = "flash_loan" /\ last.res = "Ok" /\ ~last.underpaid
    /\ LET s == Unwrap(last.flash)
       IN  /\ s.quiet
           /\ s.amount_a > 0 /\ s.amount_b = 0
           /\ s.repaid_a = s.amount_a + s.fee_a
           /\ s.balance_a = s.reserve_a /\ s.balance_b = s.reserve_b

\* C7: a flash_loan whose receiver returned less than amount + fee of a
\* borrowed token fails with FlashLoanNotRepaid (HostError when the
\* receiver trapped instead of returning).
C7_UnderpaidLoanFails ==
    (last.op = "flash_loan" /\ last.underpaid /\ last.res # "HostError")
        => last.res = "FlashLoanNotRepaid"

\* C8: no call the receiver makes from inside the callback changes
\* PairState or the share supply.
C8_NestedCallsChangeNothing ==
    [][last'.nested
          => /\ storage'.PairState = storage.PairState
             /\ token'.lp_total_supply = token.lp_total_supply]_vars

\* C9: after every successful mint, burn, swap, flash_loan or sync, k_last
\* is the product of the stored reserves.
C9_KLastIsReserveProduct ==
    (last.op \in MutatingOps /\ last.res = "Ok" /\ ~last.nested)
        => Unwrap(storage.PairState).k_last = ReserveProduct(storage)

\* C10: after every successful mint, burn, swap, flash_loan or sync, the
\* stored reserves are the token balances the pair holds.
C10_ReservesAreBalances ==
    (last.op \in MutatingOps /\ last.res = "Ok" /\ ~last.nested)
        => /\ Unwrap(storage.PairState).reserve_a = token.balance_a
           /\ Unwrap(storage.PairState).reserve_b = token.balance_b

\* C11 (as stated): once the share supply has reached MINIMUM_LIQUIDITY,
\* which the first successful mint makes it do, no later step takes it below
\* MINIMUM_LIQUIDITY: the locked shares are never burned or redeemed.
C11_MinimumLiquidityStaysLocked ==
    [][token.lp_total_supply >= MINIMUM_LIQUIDITY
       => token'.lp_total_supply >= MINIMUM_LIQUIDITY]_vars

(***************************************************************************)
(* First deposits: an initialized, empty pair to which tokens have already *)
(* been transferred, then mint, sync and burn calls.                       *)
(***************************************************************************)
FirstDepositAmounts ==
    {0, 1, 999, 1000, 1001, 1002, 1999, 2000, 2001, 9999, 10000, 10001}

FirstDepositInit ==
    /\ storage \in {[PairState |-> Some(NewPairStorage(0)), FeeState |-> f,
                     Guard |-> None] : f \in InitialFeeStates}
    /\ \E a \in FirstDepositAmounts, b \in FirstDepositAmounts :
          token = [balance_a |-> a, balance_b |-> b, lp_balance |-> 0,
                   lp_total_supply |-> 0]
    /\ ledger = [timestamp |-> 0, sequence |-> 0]
    /\ frame = None
    /\ last = NoCall
    /\ deposits = 0
    /\ calls = 0

FirstDepositNext == Mint \/ Sync \/ Burn

FirstDepositSpec == FirstDepositInit /\ [][FirstDepositNext]_vars

\* The floor square root, by its defining inequality.
LargestFirstDeposit ==
    CHOOSE m \in FirstDepositAmounts : \A x \in FirstDepositAmounts : x <= m

FloorSqrt(n) == CHOOSE s \in 0..LargestFirstDeposit :
                    s * s <= n /\ n < (s + 1) * (s + 1)

\* Shares held by anyone but the pair itself.
SharesOutside(t) == t.lp_total_supply - t.lp_balance

\* C12: a mint on a pool with zero share supply, whose deposits are
\* amount_a = balance_a - reserve_a and amount_b = balance_b - reserve_b,
\* issues exactly floor(sqrt(amount_a * amount_b)) - MINIMUM_LIQUIDITY shares
\* to the recipient when that is positive, and otherwise fails with
\* InsufficientLiquidityMinted and mints nothing.
C12_FirstMintIssuesSqrtMinusMinimum ==
    [][(last'.op = "mint" /\ token.lp_total_supply = 0)
       => LET state    == Unwrap(storage.PairState)
              amount_a == token.balance_a - state.reserve_a
              amount_b == token.balance_b - state.reserve_b
              shares   == FloorSqrt(amount_a * amount_b) - MINIMUM_LIQUIDITY
          IN  IF shares > 0
              THEN /\ last'.res = "Ok"
                   /\ SharesOutside(token') = SharesOutside(token) + shares
              ELSE /\ last'.res = "InsufficientLiquidityMinted"
                   /\ token' = token]_vars

\* 10000 of each token deposited on the empty pool: 9000 shares issued.
C12_Witness ==
    /\ last.op = "mint" /\ last.res = "Ok"
    /\ Unwrap(storage.PairState).reserve_a = 10000
    /\ Unwrap(storage.PairState).reserve_b = 10000
    /\ SharesOutside(token) = 9000

(***************************************************************************)
(* A seeded pool: the pair is initialized and holds 1,000,000 of each      *)
(* token, sync brings them into the reserves, then traders transfer their  *)
(* input to the pair and call swap.  FeeState is absent (initialize never  *)
(* creates it) or present with no volatility recorded.                     *)
(***************************************************************************)
SeedAmount == 100 * 10000

\* default_fee_state of the fee-engine tests: the fee it gives is min_fee_bps.
DefaultFeeState ==
    [vol_accumulator |-> <<>>, ema_alpha |-> BigDivSmall(SCALE, 20),
     baseline_fee_bps |-> 30, min_fee_bps |-> 5, max_fee_bps |-> 100,
     ramp_up_multiplier |-> 2, cooldown_divisor |-> 2, last_fee_update |-> 0,
     decay_threshold_blocks |-> 100]

\* A configuration whose fee without volatility is 30 bps.
ThirtyBpsFeeState == [DefaultFeeState EXCEPT !.min_fee_bps = 30]

SeededFeeStates == {None, Some(DefaultFeeState), Some(ThirtyBpsFeeState)}
SeededDepositAmounts == {<<10000, 0>>, <<10500, 0>>, <<0, 10500>>}
SeededSwapAmounts == {<<0, 10000>>, <<10000, 0>>, <<0, 0>>, <<0, SeedAmount>>}

SeededInit ==
    /\ storage \in {[PairState |-> Some(NewPairStorage(0)), FeeState |-> f,
                     Guard |-> None] : f \in SeededFeeStates}
    /\ token = [balance_a |-> SeedAmount, balance_b |-> SeedAmount,
                lp_balance |-> 0, lp_total_supply |-> 0]
    /\ ledger = [timestamp |-> 0, sequence |-> 0]
    /\ frame = None
    /\ last = NoCall
    /\ deposits = 0
    /\ calls = 0

\* A trader transfers the input of a swap to the pair.
SeededDeposit ==
    /\ Idle
    /\ deposits < MaxDeposits
    /\ \E amounts \in SeededDepositAmounts :
          token' = TransferIn(TransferIn(World, "a", amounts[1]),
                              "b", amounts[2]).token
    /\ deposits' = deposits + 1
    /\ last' = NoCall
    /\ UNCHANGED <<storage, ledger, frame, calls>>

\* A top-level swap that ran to completion with result r; the record of
\* the completed call keeps the requested outputs.
CompleteSwap(r, out) ==
    /\ Idle
    /\ calls < MaxCalls
    /\ calls' = calls + 1
    /\ storage' = Invoke(World, r).storage
    /\ token' = Invoke(World, r).token
    /\ last' = Outcome("swap", r.res, FALSE, r.ext, FALSE,
                       Some([amount_a_out |-> out[1], amount_b_out |-> out[2]]))
    /\ UNCHANGED <<ledger, frame, deposits>>

SeededSwap ==
    \E out \in SeededSwapAmounts :
        CompleteSwap(swap(World, out[1], out[2], ledger), out)

SeededNext == Sync \/ SeededDeposit \/ SeededSwap

SeededSpec == SeededInit /\ [][SeededNext]_vars

\* C13 (as stated): on an initialized pair whose FeeState was never created,
\* a swap does not fail for want of the FeeState (it never returns
\* NotInitialized; the default fee is charged instead).
C13_SwapWithoutFeeStateNotRefused ==
    (last.op = "swap" /\ IsSome(storage.PairState) /\ ~IsSome(storage.FeeState))
        => last.res # "NotInitialized"

\* The fee-adjusted balance of swap_inner step 10 as an exact wide value.
AdjustedBalance(balance, amount_in, fee_bps) ==
    BigSub(BigMul(Big(balance), Big(BPS_DENOMINATOR)),
           BigMul(Big(amount_in), Big(fee_bps)))

\* (balance_a*10000 - amount_a_in*fee_bps) * (balance_b*10000 - amount_b_in*fee_bps)
\*     >= reserve_a * reserve_b * 10000^2,
\* for a swap paying out `out` from a pair holding the tokens t, with the
\* stored reserves of st and the fee fee_bps.
FeeAdjustedProductKept(t, st, out, fee_bps) ==
    LET balance_a == t.balance_a - out.amount_a_out
        balance_b == t.balance_b - out.amount_b_out
        amount_a_in == Max(t.balance_a - st.reserve_a, 0)
        amount_b_in == Max(t.balance_b - st.reserve_b, 0)
    IN  BigLeq(BigMul(BigMul(Big(st.reserve_a), Big(st.reserve_b)),
                      Big(BPS_DENOMINATOR * BPS_DENOMINATOR)),
               BigMul(AdjustedBalance(balance_a, amount_a_in, fee_bps),
                      AdjustedBalance(balance_b, amount_b_in, fee_bps)))

MaxFeeCalls == 3

LedgerSequences == {2, 101, 103}
PriceDeltas == {0, 10000}
TradeSizes == {0, 1000, 2000}
TotalReserves == {100000}

\* Accumulator values: 0, SCALE/20, SCALE/2, SCALE, 2*SCALE.
FeeVolatilities ==
    {<<>>, BigDivSmall(SCALE, 20), BigDivSmall(SCALE, 2), SCALE,
     BigAdd(SCALE, SCALE)}

\* <<min_fee_bps, max_fee_bps>> with min <= max.
FeeBounds == {<<5, 100>>, <<30, 100>>, <<40, 40>>}

FeeEngineStates ==
    {[DefaultFeeState EXCEPT !.vol_accumulator = v,
                             !.min_fee_bps = b[1],
                             !.max_fee_bps = b[2],
                             !.decay_threshold_blocks = t] :
        v \in FeeVolatilities, b \in FeeBounds, t \in {0, 100}}

FeeEngineInit ==
    /\ storage \in {[PairState |-> None, FeeState |-> Some(fs), Guard |-> None] :
                        fs \in FeeEngineStates}
    /\ token = [balance_a |-> 0, balance_b |-> 0, lp_balance |-> 0,
                lp_total_supply |-> 0]
    /\ ledger = [timestamp |-> 0, sequence |-> 0]
    /\ frame = None
    /\ last = NoCall
    /\ deposits = 0
    /\ calls = 0

\* A call of the fee engine on the stored fee state `before` that returned
\* res, left the fee state `after` and was given or returned `detail`.
FeeCall(op, res, before, after, detail) ==
    /\ calls < MaxFeeCalls
    /\ calls' = calls + 1
    /\ storage' = [storage EXCEPT !.FeeState = Some(after)]
    /\ last' = Outcome(op, res, FALSE, {}, FALSE,
                       Some([fee_state |-> before, detail |-> detail]))
    /\ UNCHANGED <<token, ledger, frame, deposits>>

UpdateVolatilityResult(r, before, args) ==
    FeeCall("update_volatility", r.res, before, r.fs, args)

UpdateVolatilityOver(deltas, sizes, reserves) ==
    \E price_delta_abs \in deltas, trade_size \in sizes,
       total_reserve \in reserves :
        UpdateVolatilityResult(
            update_volatility(Unwrap(storage.FeeState), price_delta_abs,
                              trade_size, total_reserve, ledger.timestamp),
            Unwrap(storage.FeeState),
            [price_delta_abs |-> price_delta_abs, trade_size |-> trade_size,
             total_reserve |-> total_reserve])

UpdateVolatility == UpdateVolatilityOver(PriceDeltas, TradeSizes, TotalReserves)

DecayStaleEma ==
    FeeCall("decay_stale_ema", "Ok", Unwrap(storage.FeeState),
            decay_stale_ema(Unwrap(storage.FeeState), ledger.sequence),
            ledger.sequence)

ComputeFeeBps ==
    \E outcome \in compute_fee_bps_outcomes(Unwrap(storage.FeeState)) :
        FeeCall("compute_fee_bps", outcome.res, Unwrap(storage.FeeState),
                Unwrap(storage.FeeState), outcome.fee)

\* One or more ledgers close.
LedgersClose ==
    \E sequence \in LedgerSequences :
        /\ sequence > ledger.sequence
        /\ ledger' = [timestamp |-> sequence * SecondsPerLedger,
                      sequence  |-> sequence]
        /\ last' = NoCall
        /\ UNCHANGED <<storage, token, frame, deposits, calls>>

FeeEngineNext == UpdateVolatility \/ DecayStaleEma \/ ComputeFeeBps \/ LedgersClose

FeeEngineSpec == FeeEngineInit /\ [][FeeEngineNext]_vars

\* C15: whenever compute_fee_bps is applied to a fee state with
\* min_fee_bps <= max_fee_bps, whatever update_volatility and
\* decay_stale_ema calls came before, the fee it returns lies in
\* [min_fee_bps, max_fee_bps].
C15_FeeWithinBounds ==
    last.op = "compute_fee_bps"
        => LET fs == Unwrap(last.flash).fee_state
               fee == Unwrap(last.flash).detail
           IN  fs.min_fee_bps <= fs.max_fee_bps
                   => fs.min_fee_bps <= fee /\ fee <= fs.max_fee_bps

\* After an update at a later ledger the interpolated fee exceeds
\* max_fee_bps and the returned fee is max_fee_bps.
C15_Witness ==
    /\ last.op = "compute_fee_bps"
    /\ Unwrap(last.flash).fee_state.last_fee_update > 0
    /\ Unwrap(last.flash).fee_state.min_fee_bps < Unwrap(last.flash).fee_state.max_fee_bps
    /\ BigLess(SCALE, Unwrap(last.flash).fee_state.vol_accumulator)
    /\ Unwrap(last.flash).detail = Unwrap(last.flash).fee_state.max_fee_bps

\* The fee of the fee state fs with its accumulator replaced by v.
FeeAtVolatility(fs, v) == compute_fee_bps([fs EXCEPT !.vol_accumulator = v])

ClampedBaseline(fs) == Min(Max(fs.baseline_fee_bps, fs.min_fee_bps), fs.max_fee_bps)

\* C17 (as stated): for a fee state whose accumulator is zero,
\* compute_fee_bps returns baseline_fee_bps clamped into
\* [min_fee_bps, max_fee_bps], and the pair storing that fee state reports
\* the same fee.
C17_ZeroVolatilityGivesBaseline ==
    (last.op = "compute_fee_bps" /\ Unwrap(last.flash).fee_state.vol_accumulator = <<>>)
        => /\ Unwrap(last.flash).detail = ClampedBaseline(Unwrap(last.flash).fee_state)
           /\ get_current_fee_bps(World) = ClampedBaseline(Unwrap(last.flash).fee_state)

\* The accumulator update_volatility leaves when the completed call `call`
\* is repeated from the same fee state with the trade size trade_size.
AccumulatorForTradeSize(call, trade_size) ==
    update_volatility(call.fee_state, call.detail.price_delta_abs, trade_size,
                      call.detail.total_reserve, ledger.timestamp).fs.vol_accumulator

\* observation = price_delta_abs * (trade_size * SCALE / total_reserve) / SCALE.
SizeWeightedObservation(price_delta_abs, trade_size, total_reserve) ==
    DivScale(BigMul(Big(price_delta_abs),
                    BigDivSmall(MulScale(Big(trade_size)), total_reserve)))

\* ema_alpha times the difference of the observations of the trade sizes
\* `larger` and call.detail.trade_size is at least SCALE.
ObservationsApart(call, larger) ==
    BigLeq(BigAdd(BigMul(call.fee_state.ema_alpha,
                         SizeWeightedObservation(call.detail.price_delta_abs,
                                                 call.detail.trade_size,
                                                 call.detail.total_reserve)),
                  SCALE),
           BigMul(call.fee_state.ema_alpha,
                  SizeWeightedObservation(call.detail.price_delta_abs, larger,
                                          call.detail.total_reserve)))

\* C18 (as stated): from the same fee state and with the same
\* price_delta_abs and total_reserve, every larger trade_size leaves a
\* strictly greater vol_accumulator after update_volatility.
C18_LargerTradeStrictlyGreater ==
    (last.op = "update_volatility" /\ last.res = "Ok")
        => \A larger \in TradeSizes :
               larger > Unwrap(last.flash).detail.trade_size
                   => BigLess(Unwrap(storage.FeeState).vol_accumulator,
                              AccumulatorForTradeSize(Unwrap(last.flash), larger))

\* C18 (amended): from the same fee state and with the same price_delta_abs
\* and total_reserve, a larger trade_size never leaves a smaller
\* vol_accumulator, and leaves a strictly greater one whenever ema_alpha
\* times the difference of the two observations is at least SCALE.
C18_LargerTradeNeverSmaller ==
    (last.op = "update_volatility" /\ last.res = "Ok")
        => \A larger \in TradeSizes :
               larger > Unwrap(last.flash).detail.trade_size
                   => /\ BigLeq(Unwrap(storage.FeeState).vol_accumulator,
                                AccumulatorForTradeSize(Unwrap(last.flash), larger))
                      /\ ObservationsApart(Unwrap(last.flash), larger)
                             => BigLess(Unwrap(storage.FeeState).vol_accumulator,
                                        AccumulatorForTradeSize(Unwrap(last.flash), larger))

\* An update with a positive price change and the smaller of two trade
\* sizes whose observations are far enough apart has completed.
C18_Witness ==
    /\ last.op = "update_volatility" /\ last.res = "Ok"
    /\ Unwrap(last.flash).detail.price_delta_abs > 0
    /\ \E larger \in TradeSizes :
          /\ larger > Unwrap(last.flash).detail.trade_size
          /\ ObservationsApart(Unwrap(last.flash), larger)

\* C19: calling decay_stale_ema again at the ledger sequence at which it has
\* just been called changes nothing: the fee state, vol_accumulator and
\* last_fee_update included, is what the first call left.
C19_SecondDecayChangesNothing ==
    last.op = "decay_stale_ema"
        => decay_stale_ema(Unwrap(storage.FeeState), ledger.sequence)
               = Unwrap(storage.FeeState)

\* A call of decay_stale_ema has lowered a non-zero accumulator to a value
\* that is still non-zero and moved last_fee_update.
C19_Witness ==
    /\ last.op = "decay_stale_ema"
    /\ Unwrap(last.flash).detail = ledger.sequence
    /\ Unwrap(storage.FeeState).vol_accumulator # <<>>
    /\ BigLess(Unwrap(storage.FeeState).vol_accumulator,
               Unwrap(last.flash).fee_state.vol_accumulator)
    /\ Unwrap(storage.FeeState).last_fee_update = ledger.sequence
    /\ Unwrap(last.flash).fee_state.last_fee_update # ledger.sequence

\* floor(numerator * elapsed / denominator): the price accumulated over an
\* interval of `elapsed` seconds.
PriceOverInterval(numerator, denominator, elapsed) ==
    (numerator * elapsed) \div denominator

\* C20 (as stated): every mint, burn, swap, flash_loan or sync that returns
\* Ok after elapsed = now - block_timestamp_last > 0 seconds with both prior
\* reserves non-zero adds floor(reserve_b * elapsed / reserve_a) to
\* price_a_cumulative and floor(reserve_a * elapsed / reserve_b) to
\* price_b_cumulative; with zero elapsed time or a zero reserve it leaves
\* both accumulators unchanged.
C20_EveryOperationAccumulatesPrices ==
    [][(last'.op \in MutatingOps /\ last'.res = "Ok" /\ IsSome(storage.PairState))
       => LET prior   == Unwrap(storage.PairState)
              state   == Unwrap(storage'.PairState)
              elapsed == Max(ledger.timestamp - prior.block_timestamp_last, 0)
          IN  IF elapsed > 0 /\ prior.reserve_a > 0 /\ prior.reserve_b > 0
              THEN /\ state.price_a_cumulative = prior.price_a_cumulative
                          + PriceOverInterval(prior.reserve_b, prior.reserve_a, elapsed)
                   /\ state.price_b_cumulative = prior.price_b_cumulative
                          + PriceOverInterval(prior.reserve_a, prior.reserve_b, elapsed)
              ELSE /\ state.price_a_cumulative = prior.price_a_cumulative
                   /\ state.price_b_cumulative = prior.price_b_cumulative]_vars

\* C21 (as stated): across every operation of the pair that returns Ok,
\* and every step that completes none, price_a_cumulative and
\* price_b_cumulative never decrease.  (A failed invocation is rolled back
\* as a whole and is not a step of the sequence.)
C21_PriceAccumulatorsNeverDecrease ==
    [][(IsSome(storage.PairState) /\ IsSome(storage'.PairState)
            /\ last'.res = "Ok")
       => /\ Unwrap(storage'.PairState).price_a_cumulative
                >= Unwrap(storage.PairState).price_a_cumulative
          /\ Unwrap(storage'.PairState).price_b_cumulative
                >= Unwrap(storage.PairState).price_b_cumulative]_vars

\* C22: initialize returns Ok exactly on a pair with no PairState and then
\* stores one with zero reserves, zero k_last and zero price accumulators;
\* on a pair that has a PairState it returns AlreadyInitialized and changes
\* nothing; and no step ever removes PairState.
C22_InitializeOnceAndForAll ==
    [][/\ last'.op = "initialize"
            => IF IsSome(storage.PairState)
               THEN /\ last'.res = "AlreadyInitialized"
                    /\ storage' = storage
                    /\ token' = token
               ELSE /\ last'.res = "Ok"
                    /\ storage'.PairState
                          = Some([reserve_a |-> 0, reserve_b |-> 0,
                                  block_timestamp_last |-> ledger.timestamp,
                                  price_a_cumulative |-> 0,
                                  price_b_cumulative |-> 0, k_last |-> <<>>])
       /\ IsSome(storage.PairState) => IsSome(storage'.PairState)]_vars

\* A second initialize has been refused on a pair that already holds
\* reserves.
C22_Witness ==
    /\ last.op = "initialize"
    /\ last.res = "AlreadyInitialized"
    /\ Unwrap(storage.PairState).reserve_a > 0

(***************************************************************************)
(* The arithmetic of the fee engine and of the flash fee at the edge of    *)
(* i128: a stored FeeState whose accumulator is drawn from values up to    *)
(* i128::MAX, and flash-fee amounts up to i128::MAX.                       *)
(***************************************************************************)
\* Accumulators 0, SCALE, 2^125, 2^126 and i128::MAX.
ExtremeVolatilities ==
    {<<>>, SCALE, BigDivSmall(TwoTo127, 4), BigDivSmall(TwoTo127, 2), I128_MAX}

ExtremeFeeStates ==
    {[DefaultFeeState EXCEPT !.vol_accumulator = v,
                             !.min_fee_bps = b[1],
                             !.max_fee_bps = b[2],
                             !.decay_threshold_blocks = 0] :
        v \in ExtremeVolatilities, b \in FeeBounds}

\* Loan amounts 1, 1999, 2000, 10000, floor(i128::MAX / 10000) and i128::MAX.
FlashFeeAmounts ==
    {<<1>>, Big(1999), Big(2000), Big(10000),
     BigDivSmall(I128_MAX, BPS_DENOMINATOR), I128_MAX}

FlashFeeRates == {0, 30, 10000}

ExtremeInit ==
    /\ storage \in {[PairState |-> None, FeeState |-> Some(fs), Guard |-> None] :
                        fs \in ExtremeFeeStates}
    /\ token = [balance_a |-> 0, balance_b |-> 0, lp_balance |-> 0,
                lp_total_supply |-> 0]
    /\ ledger = [timestamp |-> SecondsPerLedger, sequence |-> 1]
    /\ frame = None
    /\ last = NoCall
    /\ deposits = 0
    /\ calls = 0

\* compute_flash_fee is applied; the record keeps its arguments and result.
ComputeFlashFee ==
    \E amount \in FlashFeeAmounts, current_fee_bps \in FlashFeeRates :
        /\ calls < MaxFeeCalls
        /\ calls' = calls + 1
        /\ last' = Outcome("compute_flash_fee", "Ok", FALSE, {}, FALSE,
                           Some([amount |-> amount,
                                 current_fee_bps |-> current_fee_bps,
                                 fee |-> compute_flash_fee_wide(amount,
                                                                current_fee_bps)]))
        /\ UNCHANGED <<storage, token, ledger, frame, deposits>>

\* update_volatility with arguments at and beyond the edge of its domain.
UpdateVolatilityExtreme ==
    UpdateVolatilityOver({-1, 0, 10000}, {0, 1000}, {0, 100000})

\* update_volatility with a valid price_delta_abs beyond machine integers.
UpdateVolatilityHuge ==
    \E price_delta_abs \in {MulScale(Big(10000)), I128_MAX} :
        UpdateVolatilityResult(
            ValidatedUpdate(Unwrap(storage.FeeState), price_delta_abs, 1000,
                            100000, ledger.timestamp),
            Unwrap(storage.FeeState),
            [price_delta_wide |-> price_delta_abs, trade_size |-> 1000,
             total_reserve |-> 100000])

ExtremeNext ==
    \/ UpdateVolatilityExtreme
    \/ UpdateVolatilityHuge
    \/ ComputeFeeBps
    \/ ComputeFlashFee

ExtremeSpec == ExtremeInit /\ [][ExtremeNext]_vars

\* C23 (as stated): no call of the fee engine or of the flash fee aborts
\* without a typed result or works with a wrapped value: a call whose
\* intermediate product leaves i128 returns Overflow and leaves the fee
\* state unchanged, and compute_fee_bps, which has no error result,
\* saturates to max_fee_bps.
C23_OverflowReportedOrSaturated ==
    /\ last.res # "HostError"
    /\ last.res = "Overflow"
           => Unwrap(storage.FeeState) = Unwrap(last.flash).fee_state
    /\ (last.op = "compute_fee_bps"
            /\ FeeProductOverflows(Unwrap(last.flash).fee_state))
           => Unwrap(last.flash).detail = Unwrap(last.flash).fee_state.max_fee_bps

\* C24 (as stated): a swap is rejected before any transfer with
\* InsufficientOutputAmount when both requested outputs are <= 0, else with
\* NotInitialized when PairState is absent, else with InsufficientLiquidity
\* when a requested output is >= its reserve; after the transfer it is
\* rejected with InsufficientInputAmount when both derived inputs are <= 0;
\* and a swap that returns Ok leaves both reserves strictly positive.
C24_SwapRejections ==
    [][last'.op = "swap"
       => LET out == Unwrap(last'.flash)
          IN  IF out.amount_a_out <= 0 /\ out.amount_b_out <= 0
              THEN last'.res = "InsufficientOutputAmount" /\ last'.ext = {}
              ELSE IF ~IsSome(storage.PairState)
              THEN last'.res = "NotInitialized" /\ last'.ext = {}
              ELSE IF \/ out.amount_a_out >= Unwrap(storage.PairState).reserve_a
                      \/ out.amount_b_out >= Unwrap(storage.PairState).reserve_b
              THEN last'.res = "InsufficientLiquidity" /\ last'.ext = {}
              ELSE /\ (/\ token.balance_a <= Unwrap(storage.PairState).reserve_a
                       /\ token.balance_b <= Unwrap(storage.PairState).reserve_b
                       /\ IsSome(storage.FeeState))
                          => last'.res = "InsufficientInputAmount"
                   /\ last'.res = "Ok"
                          => /\ Unwrap(storage'.PairState).reserve_a > 0
                             /\ Unwrap(storage'.PairState).reserve_b > 0]_vars

(***************************************************************************)
(* Flash loans with their arguments on record: a pair that holds Chunk of  *)
(* each token, uninitialized, initialized, or (after sync) with reserves.  *)
(***************************************************************************)
FlashProbeAmounts == {-1, 0, Chunk, Chunk + 1}
FlashProbeLens == {0, MAX_PAYLOAD_SIZE, MAX_PAYLOAD_SIZE + 1}
FlashProbeFeeStates == {None, Some(VolatileFeeState)}

FlashProbeInit ==
    /\ storage \in {[PairState |-> p, FeeState |-> f, Guard |-> None] :
                        p \in {None, Some(NewPairStorage(0))},
                        f \in FlashProbeFeeStates}
    /\ token = [balance_a |-> Chunk, balance_b |-> Chunk, lp_balance |-> 0,
                lp_total_supply |-> 0]
    /\ ledger = [timestamp |-> 0, sequence |-> 0]
    /\ frame = None
    /\ last = NoCall
    /\ deposits = 0
    /\ calls = 0

\* flash_loan up to the callback; a call rejected there leaves its
\* arguments on record.
FlashLoanProbe ==
    \E amount_a \in FlashProbeAmounts, amount_b \in FlashProbeAmounts,
       data_len \in FlashProbeLens :
        FlashLoanEnter(amount_a, amount_b, data_len,
                       Some([amount_a |-> amount_a, amount_b |-> amount_b,
                             data_len |-> data_len]))

\* The receiver returns the principal plus fee of each borrowed token, or up
\* to two units less.
RepayProbe == RepayWithin({0, 1, 2})

FlashProbeNext ==
    \/ Initialize
    \/ Sync
    \/ Deposit
    \/ FlashLoanProbe
    \/ RepayProbe
    \/ FlashLoanEnd
    \/ CallbackTrap

FlashProbeSpec == FlashProbeInit /\ [][FlashProbeNext]_vars

\* A flash_loan call that was rejected before the callback started.
RejectedAtEntry ==
    /\ Idle
    /\ last'.op = "flash_loan"
    /\ last'.res # "Ok"
    /\ IsSome(last'.flash)

\* C25: flash_loan rejects, in this order, a payload above 256 bytes with
\* FlashPayloadTooLarge, a negative amount or two zero amounts with
\* InsufficientInputAmount, an uninitialized pair with NotInitialized and an
\* amount above its reserve with InsufficientLiquidity; a call rejected by
\* one of these checks has not acquired the guard, moved no tokens and
\* written no state.
C25_FlashLoanPreflight ==
    [][RejectedAtEntry
          => LET args == Unwrap(last'.flash)
                 r    == FlashLoanStart(World, args.amount_a, args.amount_b,
                                        args.data_len)
             IN  /\ IF args.data_len > 256
                    THEN last'.res = "FlashPayloadTooLarge"
                    ELSE IF args.amount_a < 0 \/ args.amount_b < 0
                            \/ (args.amount_a = 0 /\ args.amount_b = 0)
                    THEN last'.res = "InsufficientInputAmount"
                    ELSE IF ~IsSome(storage.PairState)
                    THEN last'.res = "NotInitialized"
                    ELSE IF \/ args.amount_a > Unwrap(storage.PairState).reserve_a
                            \/ args.amount_b > Unwrap(storage.PairState).reserve_b
                    THEN last'.res = "InsufficientLiquidity"
                    ELSE last'.res \notin FlashPreflightErrors
                 /\ last'.res \in FlashPreflightErrors
                       => /\ r.w = World
                          /\ r.locals = None
                          /\ storage' = storage
                          /\ token' = token
                          /\ frame' = None]_vars

\* A loan of more than the reserve was refused on a pair that holds
\* reserves, with valid amounts and a payload of exactly 256 bytes.
C25_Witness ==
    /\ last.op = "flash_loan"
    /\ last.res = "InsufficientLiquidity"
    /\ IsSome(last.flash)
    /\ Unwrap(last.flash).data_len = MAX_PAYLOAD_SIZE
    /\ Unwrap(last.flash).amount_a = Chunk + 1
    /\ Unwrap(storage.PairState).reserve_a = Chunk

\* The reserves, as a product, of a flash-loan summary's entry state.
EntryProduct(s) == BigMul(Big(s.reserve_a), Big(s.reserve_b))

\* C26: after a successful flash_loan the reserve of each borrowed token is
\* at least its reserve before the loan plus the fee, the product of the
\* reserves is at least the product before, and the pair's actual balance of
\* neither token is lower than before the loan.
C26_FlashLoanNeverShrinksPool ==
    (last.op = "flash_loan" /\ last.res = "Ok")
        => LET s == Unwrap(last.flash)
               p == Unwrap(storage.PairState)
           IN  /\ s.amount_a > 0 => p.reserve_a >= s.reserve_a + s.fee_a
               /\ s.amount_b > 0 => p.reserve_b >= s.reserve_b + s.fee_b
               /\ BigLeq(EntryProduct(s), ReserveProduct(storage))
               /\ token.balance_a >= s.balance_a
               /\ token.balance_b >= s.balance_b

\* C27: the fee a successful flash_loan charged for each borrowed amount is
\* compute_flash_fee(amount, f) with f the fee get_current_fee_bps reports
\* for the pool (30 bps when no FeeState is stored).
C27_FlashFeeUsesCurrentFee ==
    (last.op = "flash_loan" /\ last.res = "Ok")
        => LET s == Unwrap(last.flash)
               f == get_current_fee_bps(World)
           IN  /\ s.amount_a > 0 => s.fee_a = compute_flash_fee(s.amount_a, f)
               /\ s.amount_b > 0 => s.fee_b = compute_flash_fee(s.amount_b, f)

\* amount * max(bps, 5), the product compute_flash_fee divides.
FlashProduct(call) ==
    BigMul(call.amount, Big(Max(call.current_fee_bps, 5)))

\* fee = max(1, floor(product / 10000)).
IsFloorFee(fee, product) ==
    IF BigLess(product, Big(10000))
    THEN fee = <<1>>
    ELSE /\ BigLeq(BigMul(fee, Big(10000)), product)
         /\ BigLess(product, BigMul(BigAdd(fee, <<1>>), Big(10000)))

\* C28: compute_flash_fee(amount, bps) is max(1, floor(amount * max(bps, 5)
\* / 10000)) when the product fits in an i128 and i128::MAX when it does
\* not; the fee is at least 1 and no smaller than the fee of any smaller
\* amount at any smaller rate.
C28_FlashFeeFormula ==
    last.op = "compute_flash_fee"
        => LET call == Unwrap(last.flash)
           IN  /\ IF BigLess(FlashProduct(call), TwoTo127)
                  THEN IsFloorFee(call.fee, FlashProduct(call))
                  ELSE call.fee = I128_MAX
               /\ BigLeq(<<1>>, call.fee)
               /\ \A amount \in FlashFeeAmounts, bps \in FlashFeeRates :
                     (BigLeq(amount, call.amount) /\ bps <= call.current_fee_bps)
                         => BigLeq(compute_flash_fee_wide(amount, bps), call.fee)

\* A fee was computed for an amount whose product with the rate overflows,
\* after one that was rounded up to the minimum.
C28_Witness ==
    /\ last.op = "compute_flash_fee"
    /\ Unwrap(last.flash).amount = I128_MAX
    /\ Unwrap(last.flash).fee = I128_MAX
    /\ compute_flash_fee_wide(<<1>>, 30) = <<1>>

\* The arguments of a recorded update_volatility call: price_delta_abs as a
\* wide number when the call passed one.
IsInvalidInput(args) ==
    \/ "price_delta_abs" \in DOMAIN args /\ args.price_delta_abs < 0
    \/ args.trade_size <= 0
    \/ args.total_reserve <= 0

WidePriceDelta(args) ==
    IF "price_delta_abs" \in DOMAIN args
    THEN Big(args.price_delta_abs)
    ELSE args.price_delta_wide

\* Some intermediate product or sum of update_volatility on valid arguments
\* does not fit in an i128.
LeavesI128(x) == BigLeq(TwoTo127, x)

IntermediateOverflows(fs, args) ==
    LET weight      == BigDivSmall(BigMul(Big(args.trade_size), SCALE),
                                   args.total_reserve)
        product     == BigMul(WidePriceDelta(args), weight)
        observation == DivScale(product)
        alpha_term  == BigMul(fs.ema_alpha, observation)
        prev_term   == BigMul(BigSub(SCALE, fs.ema_alpha), fs.vol_accumulator)
    IN  \/ LeavesI128(BigMul(Big(args.trade_size), SCALE))
        \/ LeavesI128(product)
        \/ LeavesI128(alpha_term)
        \/ LeavesI128(prev_term)
        \/ LeavesI128(BigAdd(alpha_term, prev_term))

\* C29: update_volatility returns InvalidInput when price_delta_abs < 0,
\* trade_size <= 0 or total_reserve <= 0, and Overflow when an intermediate
\* product of valid arguments leaves i128; whenever it returns an error the
\* fee state, vol_accumulator and last_fee_update included, is as before.
C29_UpdateVolatilityErrors ==
    last.op = "update_volatility"
        => LET call == Unwrap(last.flash)
           IN  /\ last.res = "InvalidInput" <=> IsInvalidInput(call.detail)
               /\ ~IsInvalidInput(call.detail)
                     => (last.res = "Overflow"
                            <=> IntermediateOverflows(call.fee_state, call.detail))
               /\ last.res # "Ok"
                     => /\ Unwrap(storage.FeeState).vol_accumulator
                              = call.fee_state.vol_accumulator
                        /\ Unwrap(storage.FeeState).last_fee_update
                              = call.fee_state.last_fee_update

\* update_volatility returned Overflow for a price_delta_abs of i128::MAX on
\* a fee state whose own terms fit.
C29_Witness ==
    /\ last.op = "update_volatility"
    /\ last.res = "Overflow"
    /\ "price_delta_wide" \in DOMAIN Unwrap(last.flash).detail
    /\ Unwrap(last.flash).detail.price_delta_wide = I128_MAX
    /\ Unwrap(last.flash).fee_state.vol_accumulator = SCALE
    /\ Unwrap(last.flash).fee_state.last_fee_update # ledger.timestamp

(***************************************************************************)
(* The EMA blend of update_volatility: fee states whose smoothing factor   *)
(* is 0, 5% or 100% and whose accumulator starts below, at or above the    *)
(* observations fed to it.                                                 *)
(***************************************************************************)
EmaInit ==
    /\ storage \in {[PairState |-> None,
                     FeeState |-> Some([DefaultFeeState EXCEPT
                                           !.vol_accumulator = v,
                                           !.ema_alpha = a]),
                     Guard |-> None] :
                        v \in {<<>>, Big(50), Big(100), Big(1000)},
                        a \in {<<>>, BigDivSmall(SCALE, 20), SCALE}}
    /\ token = [balance_a |-> 0, balance_b |-> 0, lp_balance |-> 0,
                lp_total_supply |-> 0]
    /\ ledger = [timestamp |-> 0, sequence |-> 0]
    /\ frame = None
    /\ last = NoCall
    /\ deposits = 0
    /\ calls = 0

EmaNext == UpdateVolatility \/ LedgersClose

EmaSpec == EmaInit /\ [][EmaNext]_vars

\* The observation of a recorded update_volatility call.
ObservationOf(call) ==
    SizeWeightedObservation(call.detail.price_delta_abs, call.detail.trade_size,
                            call.detail.total_reserve)

\* new = floor((ema_alpha * observation + (SCALE - ema_alpha) * old) / SCALE).
IsEmaBlend(new, fs, observation) ==
    LET sum == BigAdd(BigMul(fs.ema_alpha, observation),
                      BigMul(BigSub(SCALE, fs.ema_alpha), fs.vol_accumulator))
    IN  /\ BigLeq(BigMul(new, SCALE), sum)
        /\ BigLess(sum, BigMul(BigAdd(new, <<1>>), SCALE))

\* C30 (the formula and its two limits): a successful update_volatility
\* sets vol_accumulator to the floor of the EMA blend of the observation
\* and the old accumulator; with ema_alpha = 0 the accumulator is as
\* before, with ema_alpha = SCALE it is the observation.
EmaBlendHolds ==
    LET call == Unwrap(last.flash)
        new  == Unwrap(storage.FeeState).vol_accumulator
    IN  /\ IsEmaBlend(new, call.fee_state, ObservationOf(call))
        /\ call.fee_state.ema_alpha = <<>> => new = call.fee_state.vol_accumulator
        /\ call.fee_state.ema_alpha = SCALE => new = ObservationOf(call)

\* C30 (as stated): on valid input update_volatility blends as above, and
\* the accumulator neither decreases nor ends above the observation.
C30_EmaNeverDecreasesNorExceeds ==
    (last.op = "update_volatility" /\ last.res = "Ok")
        => /\ EmaBlendHolds
           /\ BigLeq(Unwrap(last.flash).fee_state.vol_accumulator,
                     Unwrap(storage.FeeState).vol_accumulator)
           /\ BigLeq(Unwrap(storage.FeeState).vol_accumulator,
                     ObservationOf(Unwrap(last.flash)))

\* C30 (amended): on valid input update_volatility blends as above, and
\* when the accumulator is not above the observation before the call it
\* neither decreases nor ends above the observation.
C30_EmaRisesTowardsObservation ==
    (last.op = "update_volatility" /\ last.res = "Ok")
        => /\ EmaBlendHolds
           /\ BigLeq(Unwrap(last.flash).fee_state.vol_accumulator,
                     ObservationOf(Unwrap(last.flash)))
                 => /\ BigLeq(Unwrap(last.flash).fee_state.vol_accumulator,
                              Unwrap(storage.FeeState).vol_accumulator)
                    /\ BigLeq(Unwrap(storage.FeeState).vol_accumulator,
                              ObservationOf(Unwrap(last.flash)))

\* The third call with the same observation of 100 has raised an
\* accumulator that started below it and is still below it.
C30_Witness ==
    /\ last.op = "update_volatility" /\ last.res = "Ok"
    /\ calls = 3
    /\ ObservationOf(Unwrap(last.flash)) = Big(100)
    /\ Unwrap(last.flash).fee_state.ema_alpha = BigDivSmall(SCALE, 20)
    /\ BigLess(Big(50), Unwrap(last.flash).fee_state.vol_accumulator)
    /\ BigLess(Unwrap(last.flash).fee_state.vol_accumulator,
               Unwrap(storage.FeeState).vol_accumulator)
    /\ BigLess(Unwrap(storage.FeeState).vol_accumulator, Big(100))

\* C31: a successful update_volatility sets last_fee_update to the current
\* ledger sequence, the clock decay_stale_ema compares against, so a
\* decay_stale_ema that follows it at the same ledger sequence changes
\* nothing.
C31_UpdateStampsLedgerSequence ==
    [][/\ (last'.op = "update_volatility" /\ last'.res = "Ok")
             => Unwrap(storage'.FeeState).last_fee_update = ledger'.sequence
       /\ (last.op = "update_volatility" /\ last.res = "Ok"
             /\ last'.op = "decay_stale_ema")
             => storage'.FeeState = storage.FeeState]_vars

\* C32: a decay_stale_ema called with current_sequence - last_fee_update >
\* decay_threshold_blocks leaves last_fee_update = current_sequence, whatever
\* vol_accumulator is; one called with a smaller elapsed count leaves
\* vol_accumulator and last_fee_update as they were.
C32_DecayStampsSequence ==
    last.op = "decay_stale_ema"
        => LET before == Unwrap(last.flash).fee_state
               after  == Unwrap(storage.FeeState)
               current_sequence == Unwrap(last.flash).detail
           IN  IF current_sequence - before.last_fee_update
                     > before.decay_threshold_blocks
               THEN after.last_fee_update = current_sequence
               ELSE /\ after.vol_accumulator = before.vol_accumulator
                    /\ after.last_fee_update = before.last_fee_update

(***************************************************************************)
(* Decay over idle gaps of one, two and more than MAX_DECAY_PERIODS        *)
(* periods, on accumulators below and above cooldown_divisor^64.           *)
(***************************************************************************)
DecayInit ==
    /\ storage \in {[PairState |-> None,
                     FeeState |-> Some([DefaultFeeState EXCEPT
                                           !.vol_accumulator = v,
                                           !.decay_threshold_blocks = t]),
                     Guard |-> None] :
                        v \in {SCALE, BigMul(TwoTo64, Big(100))},
                        t \in {1, 50, 100}}
    /\ token = [balance_a |-> 0, balance_b |-> 0, lp_balance |-> 0,
                lp_total_supply |-> 0]
    /\ ledger = [timestamp |-> 0, sequence |-> 0]
    /\ frame = None
    /\ last = NoCall
    /\ deposits = 0
    /\ calls = 0

DecayNext == UpdateVolatility \/ DecayStaleEma \/ LedgersClose

DecaySpec == DecayInit /\ [][DecayNext]_vars

RECURSIVE BigPow(_, _)
BigPow(base, exponent) ==
    IF exponent = 0 THEN <<1>>
    ELSE IF exponent % 2 = 0
    THEN LET half == BigPow(base, exponent \div 2) IN BigMul(half, half)
    ELSE BigMul(Big(base), BigPow(base, exponent - 1))

\* quotient = floor(dividend / divisor), for a wide divisor > 0.
IsFloorQuotient(quotient, dividend, divisor) ==
    /\ BigLeq(BigMul(quotient, divisor), dividend)
    /\ BigLess(dividend, BigMul(BigAdd(quotient, <<1>>), divisor))

\* The elapsed ledgers of a recorded decay_stale_ema call.
ElapsedOf(call) == call.detail - call.fee_state.last_fee_update

\* A recorded decay_stale_ema call to which decay applied: more ledgers
\* elapsed than the threshold, on a positive accumulator.
DecayApplied(call) ==
    /\ ElapsedOf(call) > call.fee_state.decay_threshold_blocks
    /\ call.fee_state.vol_accumulator # <<>>

\* C33: when decay applies to a positive accumulator the new accumulator is
\* floor(vol_accumulator / cooldown_divisor^periods) with periods =
\* min(floor(elapsed / decay_threshold_blocks), 64), hence at most 64
\* divisions; it is not negative and not larger than before.
C33_DecayIsPowerOfDivisor ==
    (last.op = "decay_stale_ema" /\ DecayApplied(Unwrap(last.flash)))
        => LET before  == Unwrap(last.flash).fee_state
               periods == Min(ElapsedOf(Unwrap(last.flash))
                                  \div before.decay_threshold_blocks, 64)
               after   == Unwrap(storage.FeeState).vol_accumulator
           IN  /\ IsFloorQuotient(after, before.vol_accumulator,
                                  BigPow(before.cooldown_divisor, periods))
               /\ BigLeq(<<>>, after)
               /\ BigLeq(after, before.vol_accumulator)

\* An idle gap of 101 periods has divided an accumulator of 100 * 2^64 by
\* 2^64, not by 2^101.
C33_Witness ==
    /\ last.op = "decay_stale_ema"
    /\ ElapsedOf(Unwrap(last.flash)) = 101
    /\ Unwrap(last.flash).fee_state.decay_threshold_blocks = 1
    /\ Unwrap(last.flash).fee_state.vol_accumulator = BigMul(TwoTo64, Big(100))
    /\ Unwrap(storage.FeeState).vol_accumulator = Big(100)

(***************************************************************************)
(* The guard on its own: acquire and release called one after the other   *)
(* inside the pair, as the reentrancy tests do, while tokens arrive.       *)
(***************************************************************************)
Acquire ==
    /\ calls < MaxCalls
    /\ calls' = calls + 1
    /\ storage' = acquire(World).w.storage
    /\ last' = Outcome("acquire", acquire(World).res, FALSE, {}, FALSE, None)
    /\ UNCHANGED <<token, ledger, frame, deposits>>

Release ==
    /\ calls < MaxCalls
    /\ calls' = calls + 1
    /\ storage' = release(World).storage
    /\ last' = Outcome("release", "Ok", FALSE, {}, FALSE, None)
    /\ UNCHANGED <<token, ledger, frame, deposits>>

GuardNext == Acquire \/ Release \/ Deposit

GuardSpec == Init /\ [][GuardNext]_vars

\* C34: the guard starts unlocked; acquire returns Ok and locks it exactly
\* when it is unlocked, and returns Locked leaving it locked when it is
\* locked; release leaves it unlocked, and a release that follows a release
\* changes nothing.
C34_GuardIsTwoStateMachine ==
    /\ ~GuardLocked(World)
    /\ [][/\ last'.op = "acquire"
               => /\ last'.res = (IF GuardLocked(World) THEN "Locked" ELSE "Ok")
                  /\ GuardLocked([storage |-> storage', token |-> token'])
                  /\ GuardLocked(World) => storage' = storage
          /\ last'.op = "release"
               => /\ ~GuardLocked([storage |-> storage', token |-> token'])
                  /\ last.op = "release" => storage' = storage]_vars

\* The third call of the cycle acquire, release, release has completed.
C34_Witness ==
    /\ last.op = "release"
    /\ calls = 3
    /\ storage.Guard = Some([locked |-> FALSE])

\* floor(share_balance * reserve / total_supply), 0 when no share exists.
ShareOf(share_balance, reserve, total_supply) ==
    IF total_supply = 0 THEN 0 ELSE (share_balance * reserve) \div total_supply

\* C35: on an initialized pair burn pays floor(share_balance * reserve_x /
\* total_supply) of each token for the shares the pair holds, burns exactly
\* those shares and lowers each reserve by the amount paid; when either
\* amount is <= 0 (the pair holds no shares, or no share exists) it fails
\* with InsufficientLiquidityBurned and changes nothing.
C35_BurnPaysProRata ==
    [][(last'.op = "burn" /\ IsSome(storage.PairState))
          => LET state    == Unwrap(storage.PairState)
                 amount_a == ShareOf(token.lp_balance, state.reserve_a,
                                     token.lp_total_supply)
                 amount_b == ShareOf(token.lp_balance, state.reserve_b,
                                     token.lp_total_supply)
             IN  IF amount_a <= 0 \/ amount_b <= 0
                 THEN /\ last'.res = "InsufficientLiquidityBurned"
                      /\ storage' = storage
                      /\ token' = token
                 ELSE last'.res = "Ok"
                         => /\ token'.balance_a = token.balance_a - amount_a
                            /\ token'.balance_b = token.balance_b - amount_b
                            /\ token'.lp_balance = 0
                            /\ token'.lp_total_supply
                                  = token.lp_total_supply - token.lp_balance
                            /\ Unwrap(storage'.PairState).reserve_a
                                  = state.reserve_a - amount_a
                            /\ Unwrap(storage'.PairState).reserve_b
                                  = state.reserve_b - amount_b]_vars

\* C36: compute_fee_bps neither panics nor wraps: when vol_accumulator *
\* ramp_up_multiplier * (max_fee_bps - min_fee_bps) exceeds the range of an
\* i128 it returns max_fee_bps.
C36_FeeSaturatesAtMax ==
    last.op = "compute_fee_bps"
        => /\ last.res = "Ok"
           /\ FeeProductOverflows(Unwrap(last.flash).fee_state)
                 => Unwrap(last.flash).detail
                        = Unwrap(last.flash).fee_state.max_fee_bps

\* C37: a swap or flash_loan rejected with Locked does not touch the
\* guard: the guard was held when the call was attempted, acquire returns
\* Locked together with the unchanged world, the guard is still held after
\* the rejection, and the outer invocation is still in progress under it.
C37_LockedRejectionKeepsGuard ==
    [][(last'.op \in {"swap", "flash_loan"} /\ last'.res = "Locked")
          => /\ GuardLocked(World)
             /\ acquire(World) = [res |-> "Locked", w |-> World]
             /\ GuardLocked(World')
             /\ InCallback /\ InCallback']_vars

\* The receiver's nested flash_loan was rejected with Locked and the guard
\* is still held by the outer invocation.
C37_Witness ==
    /\ InCallback /\ GuardLocked(World)
    /\ last.nested /\ last.op = "flash_loan" /\ last.res = "Locked"

\* C38: in every state between invocations the stored reserves are covered
\* by the pair's token balances: 0 <= reserve_a <= balance of token A and
\* 0 <= reserve_b <= balance of token B.
C38_ReservesCoveredByBalances ==
    (Idle /\ storage.PairState # None)
        => LET p == Unwrap(storage.PairState)
           IN  /\ 0 <= p.reserve_a /\ p.reserve_a <= token.balance_a
               /\ 0 <= p.reserve_b /\ p.reserve_b <= token.balance_b

\* Between invocations, after a burn that paid out of reserves which a
\* direct deposit had left strictly below the balances.
C38_Witness ==
    /\ Idle /\ storage.PairState # None
    /\ last.op = "burn" /\ last.res = "Ok"
    /\ Unwrap(storage.PairState).reserve_a > 0
    /\ Unwrap(storage.PairState).reserve_a < token.balance_a
    /\ Unwrap(storage.PairState).reserve_b <= token.balance_b

\* reserve_a * reserve_b * other_supply^2 of world w, for the comparison
\* of reserve_a * reserve_b / total_supply^2 without division.
ShareValueCross(w, other_supply) ==
    BigMul(ReserveProduct(w.storage),
           BigMul(Big(other_supply), Big(other_supply)))

\* reserve_a * reserve_b / total_supply^2 is not lower in world after than
\* in world before (both supplies positive).
ShareValueKept(before, after) ==
    (/\ IsSome(before.storage.PairState)
     /\ before.token.lp_total_supply > 0
     /\ after.token.lp_total_supply > 0)
        => BigLeq(ShareValueCross(before, after.token.lp_total_supply),
                  ShareValueCross(after, before.token.lp_total_supply))

\* C39: across every successful mint, burn, swap and flash_loan (the
\* flash_loan taken from its entry to its return, whatever the callback
\* did in between) reserve_a * reserve_b / total_supply^2 does not decrease.
C39_ShareValueNeverDecreases ==
    [][/\ (/\ Idle /\ Idle' /\ calls' # calls
           /\ last'.op \in {"mint", "burn", "swap"} /\ last'.res = "Ok")
              => ShareValueKept(World, World')
       /\ (InCallback /\ Idle' /\ last'.op = "flash_loan" /\ last'.res = "Ok")
              => ShareValueKept(Unwrap(frame).entry, World')]_vars

\* -------- a funded pair whose flash-loan receiver calls back into it --------

\* Loan sizes per token: nothing, or half of the first deposit.
FundedLoans == {0, Chunk \div 2}

\* The pair after initialize, a first deposit of Chunk of each token and
\* the first mint.
FundedInit ==
    /\ \E f \in InitialFeeStates :
          LET w0 == [storage |-> [PairState |-> Some(NewPairStorage(0)),
                                  FeeState |-> f, Guard |-> None],
                     token |-> [balance_a |-> Chunk, balance_b |-> Chunk,
                                lp_balance |-> 0, lp_total_supply |-> 0]]
              w1 == mint(w0).w
          IN  /\ storage = w1.storage
              /\ token = w1.token
    /\ ledger = [timestamp |-> 0, sequence |-> 0]
    /\ frame = None
    /\ last = NoCall
    /\ deposits = 0
    /\ calls = 0

FlashLoanFunded ==
    \E amount_a \in FundedLoans, amount_b \in FundedLoans :
        FlashLoanEnter(amount_a, amount_b, 0, None)

FundedNext ==
    \/ Deposit
    \/ Mint
    \/ Burn
    \/ Sync
    \/ FlashLoanFunded
    \/ Repay
    \/ NestedSync
    \/ NestedMint
    \/ NestedBurn
    \/ FlashLoanEnd
    \/ CallbackTrap

FundedSpec == FundedInit /\ [][FundedNext]_vars

\* The smaller and the larger of two wide numbers.
BigMin(a, b) == IF BigLeq(a, b) THEN a ELSE b

BigMax(a, b) == IF BigLeq(a, b) THEN b ELSE a

\* C40: with 0 <= ema_alpha <= SCALE the accumulator stays a non-negative
\* 128-bit value (it never wraps below zero) after every update_volatility
\* and decay_stale_ema; a successful update_volatility leaves it between
\* the previous accumulator and the new observation (inclusive), a failed
\* one leaves it as it was, and decay_stale_ema never raises it.
C40_AccumulatorNeverNegative ==
    (IsSome(storage.FeeState)
        /\ BigLeq(Unwrap(storage.FeeState).ema_alpha, SCALE))
        => LET new == Unwrap(storage.FeeState).vol_accumulator
           IN  /\ BigLeq(<<>>, new) /\ FitsI128(new)
               /\ (last.op = "update_volatility" /\ last.res = "Ok")
                     => LET prev == Unwrap(last.flash).fee_state.vol_accumulator
                            obs  == ObservationOf(Unwrap(last.flash))
                        IN  /\ BigLeq(BigMin(prev, obs), new)
                            /\ BigLeq(new, BigMax(prev, obs))
               /\ (last.op = "update_volatility" /\ last.res # "Ok")
                     => new = Unwrap(last.flash).fee_state.vol_accumulator
               /\ last.op = "decay_stale_ema"
                     => BigLeq(new, Unwrap(last.flash).fee_state.vol_accumulator)

\* An update pulled the accumulator down towards a smaller, positive
\* observation, strictly between the two.
C40_Witness ==
    /\ last.op = "update_volatility" /\ last.res = "Ok"
    /\ BigLess(<<>>, ObservationOf(Unwrap(last.flash)))
    /\ BigLess(ObservationOf(Unwrap(last.flash)),
               Unwrap(storage.FeeState).vol_accumulator)
    /\ BigLess(Unwrap(storage.FeeState).vol_accumulator,
               Unwrap(last.flash).fee_state.vol_accumulator)

====
